---- MODULE Spec2Model ----
(***************************************************************************)
(* Termkan: the rendering server (rds.rs), its canvas (img.rs) and the     *)
(* input listener (input.rs), as state machines.                           *)
(*                                                                         *)
(*   Spec       the Renderer singleton, the directive channel, the        *)
(*              rendering thread and the terminal it writes to            *)
(*   SpecLive   the same with the threads scheduled fairly, driven with   *)
(*              one kind of draw call                                      *)
(*   SpecInput  the input listener thread, its decoder and the event      *)
(*              channel                                                    *)
(*   SpecImage  an Image under one operation of its API                   *)
(*   SpecParse, SpecKeys   parse_event on terminal reports and on keys     *)
(*   SpecColor, SpecRaster, SpecVec   Color::hex, the arithmetic of        *)
(*              ellipse_boundary, the operators of Vec2                    *)
(***************************************************************************)
EXTENDS Integers, Sequences, FiniteSets, TLC

VARIABLES
    \* ---- the process and the Renderer singleton (rds.rs) ----
    alive,          \* the process is running (FALSE after process::exit)
    RENDERER,       \* static mut RENDERER: None or the Renderer's fields
    pc,             \* the calling thread: "run", "bd_barrier", "bd_wait", "panicked"
    pgen,           \* the barrier generation the caller waits to leave
    queue,          \* the mpsc channel sender -> rendering thread
    frame_barrier,  \* Barrier::new(2): [count, generation_id]
    srv,            \* the rendering thread's locals
    tty,            \* the terminal: settings, size, screen buffer, cursor
    \* ---- observation (history) variables of Spec ----
    sent,           \* every directive ever sent, in send order
    recvd,          \* every directive the rendering thread has received
    call,           \* the last Renderer call and its outcome
    obs,            \* counters: frames, draws, resizes, flushes, epochs
    \* ---- the input listener (input.rs) ----
    stdin,          \* bytes typed and not yet read
    stdin_eof,      \* the byte source has ended
    lst,            \* the listener thread [pc, mb], the build and the application
    input_chan,     \* the mpsc channel listener -> application
    ilog,           \* history: sequences typed, events decoded, published, received
    \* ---- a canvas used on its own (img.rs) ----
    canvas,         \* an Image: [data, size]
    cop,            \* the last operation on it: name, arguments, the Image before
    \* ---- the decoder and Color used on their own (input.rs, img.rs) ----
    decoder,        \* a byte source handed to parse_event, and the result
    swatch,         \* a value handed to Color::hex, and the result
    \* ---- i32 arithmetic used on its own (img.rs, math.rs) ----
    raster,         \* an ellipse size, the build, and how far ellipse_boundary got
    vecs            \* two Vec2 values, the operator applied and the result

rvars == <<alive, RENDERER, pc, pgen, queue, frame_barrier, srv, tty,
           sent, recvd, call, obs>>
ivars == <<stdin, stdin_eof, lst, input_chan, ilog>>
cvars == <<canvas, cop>>
vars == <<alive, RENDERER, pc, pgen, queue, frame_barrier, srv, tty,
          sent, recvd, call, obs, stdin, stdin_eof, lst, input_chan, ilog,
          canvas, cop, decoder, swatch, raster, vecs>>
fvars == <<decoder, swatch, raster, vecs>>

None == [tag |-> "None"]

(***************************************************************************)
(* Bounds of the model                                                     *)
(***************************************************************************)
MaxFrames == 2
MaxDraws == 2
MaxResizes == 1
MaxChunks == 2
MaxCoord == 3
MaxExtent == 3
MaxEllipse == 4

(***************************************************************************)
(* math.rs: Vec2                                                           *)
(***************************************************************************)
Vec2_new(x, y) == [x |-> x, y |-> y]

ZERO == Vec2_new(0, 0)

Abs(n) == IF n < 0 THEN -n ELSE n

\* Rust's integer division truncates toward zero
Div(a, b) == IF (a >= 0) = (b > 0) THEN Abs(a) \div Abs(b) ELSE -(Abs(a) \div Abs(b))

Min(a, b) == IF a < b THEN a ELSE b

Max(a, b) == IF a > b THEN a ELSE b

(***************************************************************************)
(* img.rs: Color                                                           *)
(***************************************************************************)
\* h & (0xFF * unit), for a 24-bit h and unit a power of 256
Mask(h, unit) == ((h \div unit) % 256) * unit

\* a hex that reads the value as 0xBBGGRR
Color_hex_bgr(h) ==
    [r |-> Mask(h, 1) \div 1,
     g |-> Mask(h, 256) \div 256,
     b |-> Mask(h, 65536) \div 65536]

Color_hex(h) ==
    [r |-> Mask(h, 65536) \div 65536,
     g |-> Mask(h, 256) \div 256,
     b |-> Mask(h, 1) \div 1]

BLACK == Color_hex(0)

RED == Color_hex(16711680)

WHITE == Color_hex(16777215)

(***************************************************************************)
(* img.rs: Image                                                           *)
(***************************************************************************)
Image_new(w, h) == [data |-> [k \in 1..(w * h) |-> BLACK], size |-> Vec2_new(w, h)]

\* Vec::resize(n, BLACK): truncate, or extend with BLACK, keeping the prefix
Vec_resize(data, n) ==
    [k \in 1..n |-> IF k <= Len(data) THEN data[k] ELSE BLACK]

\* a resize that records the new size and leaves the cell array alone
Image_resize_size_only(img, w, h) == [img EXCEPT !.size = Vec2_new(w, h)]

Image_resize(img, w, h) ==
    [data |-> Vec_resize(img.data, w * h), size |-> Vec2_new(w, h)]

out_of_range(img, p) ==
    p.x < 0 \/ p.y < 0 \/ p.x >= img.size.x \/ p.y >= img.size.y

\* Index<Vec2>: out-of-range reads give BLACK
Index(img, p) ==
    IF ~out_of_range(img, p) THEN img.data[(p.x + p.y * img.size.x) + 1] ELSE BLACK

\* a write that indexes the cell array without the range test
Image_point_unchecked(img, p, c) ==
    [img EXCEPT !.data[(p.x + p.y * img.size.x) + 1] = c]

\* IndexMut<Vec2> followed by an assignment: out-of-range writes land in TEMP
Image_point(img, p, c) ==
    IF ~out_of_range(img, p)
    THEN [img EXCEPT !.data[(p.x + p.y * img.size.x) + 1] = c]
    ELSE img

Image_clear(img, c) == [img EXCEPT !.data = [k \in 1..Len(img.data) |-> c]]

\* a loop that stops as soon as the cursor is off the canvas
RECURSIVE line_loop_while_inside(_, _, _, _, _, _, _, _, _)
line_loop_while_inside(img, p1, p2, c, dx, dy, sx, sy, err) ==
    IF (p1.x # p2.x \/ p1.y # p2.y) /\ ~out_of_range(img, p1)
    THEN LET e2 == 2 * err
             err1 == IF e2 >= dy THEN err + dy ELSE err
             x1 == IF e2 >= dy THEN p1.x + sx ELSE p1.x
             err2 == IF e2 <= dx THEN err1 + dx ELSE err1
             y1 == IF e2 <= dx THEN p1.y + sy ELSE p1.y
             q == Vec2_new(x1, y1)
         IN line_loop_while_inside(Image_point(img, q, c), q, p2, c, dx, dy, sx, sy, err2)
    ELSE img

\* the while loop of line
RECURSIVE line_loop(_, _, _, _, _, _, _, _, _)
line_loop(img, p1, p2, c, dx, dy, sx, sy, err) ==
    IF /\ (p1.x # p2.x \/ p1.y # p2.y)
       /\ ((p1.x < img.size.x /\ sx > 0) \/ (p1.x >= 0 /\ sx < 0))
       /\ ((p1.y < img.size.y /\ sy > 0) \/ (p1.y >= 0 /\ sy < 0))
    THEN LET e2 == 2 * err
             err1 == IF e2 >= dy THEN err + dy ELSE err
             x1 == IF e2 >= dy THEN p1.x + sx ELSE p1.x
             err2 == IF e2 <= dx THEN err1 + dx ELSE err1
             y1 == IF e2 <= dx THEN p1.y + sy ELSE p1.y
             q == Vec2_new(x1, y1)
         IN line_loop(Image_point(img, q, c), q, p2, c, dx, dy, sx, sy, err2)
    ELSE img

\* a line that stops as soon as it would leave the canvas at its start
Image_line_from_inside(img, p1, p2, c) ==
    IF out_of_range(img, p1) THEN img
    ELSE line_loop(Image_point(img, p1, c), p1, p2, c,
                   Abs(p2.x - p1.x), -Abs(p2.y - p1.y),
                   IF p1.x < p2.x THEN 1 ELSE -1, IF p1.y < p2.y THEN 1 ELSE -1,
                   Abs(p2.x - p1.x) - Abs(p2.y - p1.y))

Image_line(img, p1, p2, c) ==
    LET dx == Abs(p2.x - p1.x)
        sx == IF p1.x < p2.x THEN 1 ELSE -1
        dy == -Abs(p2.y - p1.y)
        sy == IF p1.y < p2.y THEN 1 ELSE -1
    IN line_loop(Image_point(img, p1, c), p1, p2, c, dx, dy, sx, sy, dx + dy)

Image_rect_boudary(img, p, s, c) ==
    LET i1 == Image_line(img, Vec2_new(p.x, p.y), Vec2_new(p.x + s.x, p.y), c)
        i2 == Image_line(i1, Vec2_new(p.x + s.x, p.y), Vec2_new(p.x + s.x, p.y + s.y), c)
        i3 == Image_line(i2, Vec2_new(p.x + s.x, p.y + s.y), Vec2_new(p.x, p.y + s.y), c)
    IN Image_line(i3, Vec2_new(p.x, p.y + s.y), Vec2_new(p.x, p.y), c)

RECURSIVE rect_cols(_, _, _, _, _, _, _)
rect_cols(img, px, y, sx, dx, i, c) ==
    IF i >= Abs(sx) THEN img
    ELSE LET x == px + i * dx
         IN IF x >= img.size.x THEN img
            ELSE rect_cols(Image_point(img, Vec2_new(x, y), c), px, y, sx, dx, i + 1, c)

RECURSIVE rect_rows(_, _, _, _, _, _, _)
rect_rows(img, p, s, dx, dy, j, c) ==
    IF j >= Abs(s.y) THEN img
    ELSE LET y == p.y + j * dy
         IN IF y >= img.size.y THEN img
            ELSE rect_rows(rect_cols(img, p.x, y, s.x, dx, 0, c), p, s, dx, dy, j + 1, c)

Image_rect(img, p0, s0, c) ==
    LET sx1 == IF p0.x < 0 THEN s0.x + (p0.x - 1) ELSE s0.x
        px1 == IF p0.x < 0 THEN 0 ELSE p0.x
        sy1 == IF p0.y < 0 THEN s0.y + (p0.y - 1) ELSE s0.y
        py1 == IF p0.y < 0 THEN 0 ELSE p0.y
        dx == IF sx1 > 0 THEN 1 ELSE -1
        dy == IF sy1 > 0 THEN 1 ELSE -1
    IN rect_rows(img, Vec2_new(px1, py1), Vec2_new(sx1, sy1), dx, dy, 0, c)

\* a plot of the two points on the right of the center only
plot_ellipse_points_right(img, center, pos, c) ==
    Image_point(Image_point(img, Vec2_new(center.x + pos.x, center.y + pos.y), c),
                Vec2_new(center.x + pos.x, center.y - pos.y), c)

plot_ellipse_points(img, center, pos, c) ==
    LET i1 == Image_point(img, Vec2_new(center.x + pos.x, center.y + pos.y), c)
        i2 == Image_point(i1, Vec2_new(center.x + pos.x, center.y - pos.y), c)
        i3 == Image_point(i2, Vec2_new(center.x - pos.x, center.y + pos.y), c)
    IN Image_point(i3, Vec2_new(center.x - pos.x, center.y - pos.y), c)

\* second region: stepping y
RECURSIVE ellipse_region2(_, _, _, _, _, _, _, _, _, _, _)
ellipse_region2(img, center, c, x, y, p, dpse, dps, d2ps, d2pse, fuel) ==
    IF y > 0 /\ fuel > 0
    THEN LET south == p > 0
             p1 == IF south THEN p + dps ELSE p + dpse
             dpse1 == IF south THEN dpse + d2ps ELSE dpse + d2pse
             x1 == IF south THEN x ELSE x + 1
             y1 == y - 1
         IN ellipse_region2(plot_ellipse_points(img, center, Vec2_new(x1, y1), c),
                            center, c, x1, y1, p1, dpse1, dps, d2ps, d2pse, fuel - 1)
    ELSE img

\* first region: stepping x; hands x, y, p over to the second region
RECURSIVE ellipse_region1(_, _, _, _, _, _, _, _, _, _, _, _, _)
ellipse_region1(img, center, c, a, b, x, y, p, dpe, dpse, d2pe, d2pse, fuel) ==
    IF dpse < 2 * a * a + 3 * b * b /\ fuel > 0
    THEN LET east == p < 0
             p1 == IF east THEN p + dpe ELSE p + dpse
             dpe1 == dpe + d2pe
             dpse1 == IF east THEN dpse + d2pe ELSE dpse + d2pse
             y1 == IF east THEN y ELSE y - 1
             x1 == x + 1
         IN ellipse_region1(plot_ellipse_points(img, center, Vec2_new(x1, y1), c),
                            center, c, a, b, x1, y1, p1, dpe1, dpse1, d2pe, d2pse, fuel - 1)
    ELSE LET p2 == p - Div(a * a * (4 * y - 3) + b * b * (4 * x + 3) + 2, 4)
             dpse2 == 2 * b * b + 3 * a * a
             dps == a * a * (3 - 2 * y)
             d2ps == 2 * a * a
         IN ellipse_region2(img, center, c, x, y, p2, dpse2, dps, d2ps, d2pse, fuel)

\* an upper bound on the steps of the two loops together, for the recursion
EllipseFuel == 64

Image_ellipse_boundary(img, center, size, c) ==
    LET a == Div(size.x, 2)
        b == Div(size.y, 2)
        p == b * b + Div(a * a * (1 - 4 * b) - 2, 4)
        dpe == 3 * b * b
        dpse == dpe - 2 * a * a * (b - 1)
        d2pe == 2 * b * b
        d2pse == d2pe + 2 * a * a
    IN ellipse_region1(plot_ellipse_points(img, center, Vec2_new(0, b), c),
                       center, c, a, b, 0, b, p, dpe, dpse, d2pe, d2pse, EllipseFuel)

(***************************************************************************)
(* The terminal: termios settings (tcgetattr/tcsetattr), window size       *)
(* (TIOCGWINSZ), and the interpretation of the bytes the program prints    *)
(***************************************************************************)
ECHO == "ECHO"

ICANON == "ICANON"

ISIG == "ISIG"

IEXTEN == "IEXTEN"

Blank == "blank"

Default == [tag |-> "Default"]

\* terminal sizes in character cells, [col, row]
Sizes == {[col |-> 2, row |-> 2], [col |-> 1, row |-> 1]}

\* the terminal settings the program may find at start
InitLflags == {{ECHO, ICANON, ISIG, IEXTEN}}

InitCc == {[VMIN |-> 0, VTIME |-> 5, VINTR |-> 3]}

Grid(size) == (0..(size.col - 1)) \X (0..(size.row - 1))

\* the pixels a half-block glyph shows under foreground fg and background bg
GlyphPixels(g, fg, bg) ==
    CASE g = " " -> <<bg, bg>>
      [] g = "lower" -> <<bg, fg>>
      [] g = "upper" -> <<fg, bg>>
      [] g = "full" -> <<fg, fg>>

\* scroll the buffer up by one row when the cursor stands below the last row
ScrollIfBelow(t) ==
    IF t.cur.y >= t.size.row
    THEN [t EXCEPT !.cells = [q \in Grid(t.size) |->
                                 IF q[2] + 1 < t.size.row THEN t.cells[<<q[1], q[2] + 1>>]
                                 ELSE Blank],
                   !.cur = Vec2_new(t.cur.x, t.size.row - 1)]
    ELSE t

\* print one glyph at the cursor; the cursor advances one column and wraps
\* to the next row at the right edge
PutGlyph(t0, g) ==
    LET t == ScrollIfBelow(t0)
        nx == t.cur.x + 1
    IN [t EXCEPT !.cells[<<t.cur.x, t.cur.y>>] = GlyphPixels(g, t.fg, t.bg),
                 !.cur = IF nx >= t.size.col THEN Vec2_new(0, t.cur.y + 1)
                         ELSE Vec2_new(nx, t.cur.y)]

\* ESC [ row ; col H (1-based, clamped to the screen)
CursorTo(t, row, col) ==
    [t EXCEPT !.cur = Vec2_new(Max(0, Min(col, t.size.col) - 1),
                               Max(0, Min(row, t.size.row) - 1))]

TermToken(t, tok) ==
    CASE tok.k = "fg" -> [t EXCEPT !.fg = tok.c]
      [] tok.k = "bg" -> [t EXCEPT !.bg = tok.c]
      [] tok.k = "home" -> CursorTo(t, 1, 1)
      [] tok.k = "cup" -> CursorTo(t, tok.row, tok.col)
      [] tok.k = "glyph" -> PutGlyph(t, tok.g)

RECURSIVE TermWrite(_, _)
TermWrite(t, toks) ==
    IF toks = <<>> THEN t ELSE TermWrite(TermToken(t, Head(toks)), Tail(toks))

\* a window resize keeps the cells that remain and blanks the new ones
TermResized(t, size) ==
    [t EXCEPT !.size = size,
              !.cells = [q \in Grid(size) |->
                            IF q \in Grid(t.size) THEN t.cells[q] ELSE Blank],
              !.cur = Vec2_new(Min(t.cur.x, size.col - 1), Min(t.cur.y, size.row - 1))]

\* the escape sequences of Display for Color: {:+} foreground, {:-} background
Fmt_fore(c) == [k |-> "fg", c |-> c]

Fmt_back(c) == [k |-> "bg", c |-> c]

Tok_home == [k |-> "home"]

Tok_cup(row, col) == [k |-> "cup", row |-> row, col |-> col]

Tok_glyph(g) == [k |-> "glyph", g |-> g]

(***************************************************************************)
(* rds.rs: RenderingDirective                                              *)
(***************************************************************************)
DrawLine(p1, p2, c) == [op |-> "DrawLine", a |-> p1, b |-> p2, c |-> c]

DrawRect(p, s, c) == [op |-> "DrawRect", a |-> p, b |-> s, c |-> c]

DrawRectBoudary(p, s, c) == [op |-> "DrawRectBoudary", a |-> p, b |-> s, c |-> c]

DrawEllipseBoudary(center, s, c) == [op |-> "DrawEllipseBoudary", a |-> center, b |-> s, c |-> c]

DrawPoint(p, c) == [op |-> "DrawPoint", a |-> p, b |-> ZERO, c |-> c]

ClearScreen(c) == [op |-> "ClearScreen", a |-> ZERO, b |-> ZERO, c |-> c]

UpdateScreenSize(size) == [op |-> "UpdateScreenSize", a |-> size, b |-> ZERO, c |-> BLACK]

BeginFrame == [op |-> "BeginFrame", a |-> ZERO, b |-> ZERO, c |-> BLACK]

PushFrame == [op |-> "PushFrame", a |-> ZERO, b |-> ZERO, c |-> BLACK]

DrawOps == {"DrawLine", "DrawRect", "DrawRectBoudary", "DrawEllipseBoudary",
            "DrawPoint", "ClearScreen"}

\* the arguments the caller draws with
Colors == {RED, WHITE}

PointArgs == {Vec2_new(1, 2)}

LineArgs == {<<Vec2_new(0, 1), Vec2_new(1, 3)>>}

RectArgs == {<<Vec2_new(1, 1), Vec2_new(1, 2)>>}

RectBoundaryArgs == {<<Vec2_new(0, 0), Vec2_new(1, 3)>>}

EllipseArgs == {<<Vec2_new(1, 1), Vec2_new(2, 2)>>}

(***************************************************************************)
(* rds.rs: Renderer, the calling thread's side                             *)
(***************************************************************************)
\* Barrier::new(2)
BarrierN == 2

\* the arrival at a barrier that does not wait for a second party
Barrier_arrive_alone(b) == [count |-> 0, generation_id |-> b.generation_id + 1]

\* Barrier::wait, the arrival: the last of the n parties resets the count
\* and opens the next generation, the others wait for the generation to change
Barrier_arrive(b) ==
    IF b.count + 1 < BarrierN
    THEN [count |-> b.count + 1, generation_id |-> b.generation_id]
    ELSE [count |-> 0, generation_id |-> b.generation_id + 1]

\* Renderer::get_size: TIOCGWINSZ, two pixel rows per character row
get_size(t) == Vec2_new(t.size.col, 2 * t.size.row)

\* can_draw without its test of building_frame
can_draw_unchecked(r) == TRUE

\* can_draw: TRUE when the call may proceed, FALSE when it panics
can_draw(r) == r.building_frame

\* the record of a call: its name, building_frame at entry, its outcome, the
\* number of directives it sent, and its rank among the calls of the run
Called(op, bf, outcome, enq) ==
    [op |-> op, bf |-> bf, outcome |-> outcome, enq |-> enq, n |-> call.n + 1]

\* Renderer::get on an empty singleton: Renderer::init
Get ==
    /\ alive /\ pc = "run" /\ RENDERER = None
    /\ LET termios0 == [c_lflag |-> tty.c_lflag, c_cc |-> tty.c_cc]
           termios == [c_lflag |-> termios0.c_lflag \ {ECHO, ICANON, ISIG},
                       c_cc |-> [termios0.c_cc EXCEPT !.VMIN = 1, !.VTIME = 0]]
       IN /\ RENDERER' = [termios |-> termios,
                          default_c_lflags |-> termios0.c_lflag,
                          default_c_cc |-> termios0.c_cc,
                          building_frame |-> FALSE,
                          prev_screen_size |-> ZERO]
          \* tcsetattr(TCSANOW), then hide cursor and use the alternate screen
          /\ tty' = [tty EXCEPT !.c_lflag = termios.c_lflag,
                                !.c_cc = termios.c_cc,
                                !.cursor_visible = FALSE,
                                !.alt = TRUE,
                                !.cells = [q \in Grid(tty.size) |-> Blank],
                                !.cur = ZERO]
    /\ srv' = [srv EXCEPT !.pc = "init"]
    /\ call' = Called("get", FALSE, "ok", 0)
    /\ UNCHANGED <<alive, pc, pgen, queue, frame_barrier, sent, recvd, obs>>

\* Drop for Renderer: what the terminal is left with
Renderer_drop(r, t) ==
    LET termios == [r.termios EXCEPT !.c_cc = r.default_c_cc,
                                     !.c_lflag = r.default_c_lflags]
    IN [t EXCEPT !.cursor_visible = TRUE, !.alt = FALSE, !.mouse = FALSE]

\* Renderer::exit: RENDERER = None drops the singleton, whose drop ends the process
Exit ==
    /\ alive /\ pc = "run"
    /\ RENDERER' = None
    /\ IF RENDERER = None
       THEN /\ call' = [Called("exit", FALSE, "ok", 0) EXCEPT !.n = call.n]
            /\ UNCHANGED <<alive, tty>>
       ELSE /\ call' = Called("exit", RENDERER.building_frame, "ok", 0)
            /\ tty' = Renderer_drop(RENDERER, tty)
            /\ alive' = FALSE
    /\ UNCHANGED <<pc, pgen, queue, frame_barrier, srv, sent, recvd, obs>>

\* panic!: the calling thread unwinds and, being the main thread, ends the
\* process; the static RENDERER is not dropped
Panic(op) ==
    /\ pc' = "panicked"
    /\ alive' = FALSE
    /\ call' = Called(op, RENDERER.building_frame, "panic", 0)
    /\ UNCHANGED <<RENDERER, pgen, queue, frame_barrier, srv, tty, sent, recvd, obs>>

\* begin_draw sending BeginFrame ahead of the resize directive
begin_draw_sends_resize_late(changed, new_size) ==
    <<BeginFrame>> \o (IF changed THEN <<UpdateScreenSize(new_size)>> ELSE <<>>)

\* the directives begin_draw sends: UpdateScreenSize when the size changed,
\* then BeginFrame
begin_draw_sends(changed, new_size) ==
    (IF changed THEN <<UpdateScreenSize(new_size)>> ELSE <<>>) \o <<BeginFrame>>

BeginDraw ==
    /\ alive /\ pc = "run" /\ RENDERER # None
    /\ IF RENDERER.building_frame
       THEN Panic("begin_draw")
       ELSE LET new_size == get_size(tty)
                changed == RENDERER.prev_screen_size # new_size
                msgs == begin_draw_sends(changed, new_size)
            IN /\ obs.frames < MaxFrames
               /\ RENDERER' = [RENDERER EXCEPT !.building_frame = TRUE,
                                               !.prev_screen_size = new_size]
               /\ queue' = queue \o msgs
               /\ sent' = sent \o msgs
               /\ pc' = "bd_barrier"
               /\ call' = Called("begin_draw", FALSE, "waiting", Len(msgs))
               /\ obs' = [obs EXCEPT !.frames = @ + 1,
                                     !.sizeEpoch = IF changed THEN obs.resizes ELSE @]
               /\ UNCHANGED <<alive, pgen, frame_barrier, srv, tty, recvd>>

\* a begin_draw that returns without waiting at the barrier
BeginDrawWait_through ==
    /\ alive /\ pc = "bd_barrier"
    /\ pc' = "run"
    /\ call' = [call EXCEPT !.outcome = "ok"]
    /\ UNCHANGED <<alive, RENDERER, pgen, queue, frame_barrier, srv, tty, sent, recvd, obs>>

\* begin_draw reaches frame_barrier.wait()
BeginDrawWait ==
    /\ alive /\ pc = "bd_barrier"
    /\ frame_barrier' = Barrier_arrive(frame_barrier)
    /\ pgen' = frame_barrier.generation_id
    /\ IF frame_barrier'.generation_id # frame_barrier.generation_id
       THEN /\ pc' = "run"
            /\ call' = [call EXCEPT !.outcome = "ok"]
       ELSE /\ pc' = "bd_wait"
            /\ UNCHANGED call
    /\ UNCHANGED <<alive, RENDERER, queue, srv, tty, sent, recvd, obs>>

\* a wait that misses the round it waited for and returns on the next only
BeginDrawReturn_missed_round ==
    /\ alive /\ pc = "bd_wait"
    /\ frame_barrier.generation_id > pgen + 1
    /\ pc' = "run"
    /\ call' = [call EXCEPT !.outcome = "ok"]
    /\ UNCHANGED <<alive, RENDERER, pgen, queue, frame_barrier, srv, tty, sent, recvd, obs>>

\* frame_barrier.wait() returns in begin_draw
BeginDrawReturn ==
    /\ alive /\ pc = "bd_wait"
    /\ frame_barrier.generation_id # pgen
    /\ pc' = "run"
    /\ call' = [call EXCEPT !.outcome = "ok"]
    /\ UNCHANGED <<alive, RENDERER, pgen, queue, frame_barrier, srv, tty, sent, recvd, obs>>

\* an end_draw that waits at the barrier after sending PushFrame
EndDraw_waits ==
    /\ alive /\ pc = "run" /\ RENDERER # None
    /\ IF ~RENDERER.building_frame
       THEN Panic("end_draw")
       ELSE /\ RENDERER' = [RENDERER EXCEPT !.building_frame = FALSE]
            /\ queue' = Append(queue, PushFrame)
            /\ sent' = Append(sent, PushFrame)
            /\ pc' = "bd_barrier"
            /\ call' = Called("end_draw", TRUE, "waiting", 1)
            /\ UNCHANGED <<alive, pgen, frame_barrier, srv, tty, recvd, obs>>

EndDraw ==
    /\ alive /\ pc = "run" /\ RENDERER # None
    /\ IF ~RENDERER.building_frame
       THEN Panic("end_draw")
       ELSE /\ RENDERER' = [RENDERER EXCEPT !.building_frame = FALSE]
            /\ queue' = Append(queue, PushFrame)
            /\ sent' = Append(sent, PushFrame)
            /\ call' = Called("end_draw", TRUE, "ok", 1)
            /\ UNCHANGED <<alive, pc, pgen, frame_barrier, srv, tty, recvd, obs>>

\* a draw operation that sends its directive without calling can_draw
Draw_unbracketed(op, d) ==
    /\ alive /\ pc = "run" /\ RENDERER # None
    /\ obs.draws < MaxDraws
    /\ queue' = Append(queue, d)
    /\ sent' = Append(sent, d)
    /\ call' = Called(op, RENDERER.building_frame, "ok", 1)
    /\ obs' = [obs EXCEPT !.draws = @ + 1]
    /\ UNCHANGED <<alive, RENDERER, pc, pgen, frame_barrier, srv, tty, recvd>>

\* the body shared by the draw operations: can_draw, then sender.send
Draw(op, d) ==
    /\ alive /\ pc = "run" /\ RENDERER # None
    /\ IF ~can_draw(RENDERER)
       THEN Panic(op)
       ELSE /\ obs.draws < MaxDraws
            /\ queue' = Append(queue, d)
            /\ sent' = Append(sent, d)
            /\ call' = Called(op, RENDERER.building_frame, "ok", 1)
            /\ obs' = [obs EXCEPT !.draws = @ + 1]
            /\ UNCHANGED <<alive, RENDERER, pc, pgen, frame_barrier, srv, tty, recvd>>

clear_screen == \E c \in {WHITE} : Draw("clear_screen", ClearScreen(c))

draw_line == \E a \in LineArgs, c \in {WHITE} : Draw("draw_line", DrawLine(a[1], a[2], c))

draw_rect == \E a \in RectArgs, c \in {RED} : Draw("draw_rect", DrawRect(a[1], a[2], c))

draw_rect_boundary ==
    \E a \in RectBoundaryArgs, c \in {RED} :
        Draw("draw_rect_boundary", DrawRectBoudary(a[1], a[2], c))

draw_ellipse_boundary ==
    \E a \in EllipseArgs, c \in {WHITE} :
        Draw("draw_ellipse_boundary", DrawEllipseBoudary(a[1], a[2], c))

draw_point == \E p \in PointArgs, c \in Colors : Draw("draw_point", DrawPoint(p, c))

(***************************************************************************)
(* rds.rs: the rendering thread spawned by Renderer::init                  *)
(***************************************************************************)
\* a start that prints no color escape
WorkerStart_silent ==
    /\ alive /\ srv.pc = "init"
    /\ srv' = [srv EXCEPT !.pc = "recv",
                          !.screen_size = get_size(tty),
                          !.screen = Image_new(0, 0),
                          !.prev_screen = Image_new(0, 0),
                          !.back = BLACK,
                          !.fore = BLACK]
    /\ UNCHANGED <<alive, RENDERER, pc, pgen, queue, frame_barrier, tty, sent, recvd, call, obs>>

\* the thread's first statements, up to the loop
WorkerStart ==
    /\ alive /\ srv.pc = "init"
    /\ srv' = [srv EXCEPT !.pc = "recv",
                          !.screen_size = get_size(tty),
                          !.screen = Image_new(0, 0),
                          !.prev_screen = Image_new(0, 0),
                          !.back = BLACK,
                          !.fore = BLACK]
    /\ tty' = TermWrite(tty, <<Fmt_back(BLACK), Fmt_fore(BLACK)>>)
    /\ UNCHANGED <<alive, RENDERER, pc, pgen, queue, frame_barrier, sent, recvd, call, obs>>

\* the directives that only change the canvas
ApplyDraw(screen, d) ==
    CASE d.op = "DrawLine" -> Image_line(screen, d.a, d.b, d.c)
      [] d.op = "DrawRect" -> Image_rect(screen, d.a, d.b, d.c)
      [] d.op = "DrawRectBoudary" -> Image_rect_boudary(screen, d.a, d.b, d.c)
      [] d.op = "DrawEllipseBoudary" -> Image_ellipse_boundary(screen, d.a, d.b, d.c)
      [] d.op = "DrawPoint" -> Image_point(screen, d.a, d.c)
      [] d.op = "ClearScreen" -> Image_clear(screen, d.c)
      [] d.op = "UpdateScreenSize" -> Image_resize(screen, d.a.x, d.a.y)
      [] OTHER -> screen

\* a receive that takes the newest directive
Recv_newest(q) == q[Len(q)]

\* tx.recv(): the oldest directive in the channel
Recv(q) == Head(q)

\* one turn of the loop: receive a directive and act on it; BeginFrame
\* arrives at the barrier, PushFrame homes the cursor and enters the flush
WorkerRecv ==
    /\ alive /\ srv.pc = "recv" /\ queue # <<>>
    /\ LET d == Recv(queue)
       IN /\ queue' = Tail(queue)
          /\ recvd' = Append(recvd, d)
          /\ CASE d.op = "BeginFrame" ->
                    /\ frame_barrier' = Barrier_arrive(frame_barrier)
                    /\ srv' = [srv EXCEPT
                                 !.gen = frame_barrier.generation_id,
                                 !.pc = IF frame_barrier'.generation_id # frame_barrier.generation_id
                                        THEN "recv" ELSE "barrier"]
                    /\ UNCHANGED <<tty, obs>>
               [] d.op = "PushFrame" ->
                    /\ srv' = [srv EXCEPT
                                 !.pc = IF srv.screen_size.y > 0 /\ srv.screen_size.x > 0
                                        THEN "flush" ELSE "flush_end",
                                 !.skiped = FALSE, !.i = 0, !.j = 0]
                    /\ tty' = TermWrite(tty, <<Tok_home>>)
                    /\ obs' = [obs EXCEPT !.esc = 0, !.glyph = 0, !.cup = 0, !.skip = 0]
                    /\ UNCHANGED frame_barrier
               [] OTHER ->
                    /\ srv' = [srv EXCEPT
                                 !.screen = ApplyDraw(srv.screen, d),
                                 !.screen_size = IF d.op = "UpdateScreenSize" THEN d.a ELSE @]
                    /\ UNCHANGED <<tty, obs, frame_barrier>>
    /\ UNCHANGED <<alive, RENDERER, pc, pgen, sent, call>>

\* a rendering thread that starts every frame on a black canvas
WorkerBarrierReturn_fresh_canvas ==
    /\ alive /\ srv.pc = "barrier"
    /\ frame_barrier.generation_id # srv.gen
    /\ srv' = [srv EXCEPT !.pc = "recv", !.screen = Image_clear(srv.screen, BLACK)]
    /\ UNCHANGED <<alive, RENDERER, pc, pgen, queue, frame_barrier, tty, sent, recvd, call, obs>>

\* frame_barrier.wait() returns in the rendering thread
WorkerBarrierReturn ==
    /\ alive /\ srv.pc = "barrier"
    /\ frame_barrier.generation_id # srv.gen
    /\ srv' = [srv EXCEPT !.pc = "recv"]
    /\ UNCHANGED <<alive, RENDERER, pc, pgen, queue, frame_barrier, tty, sent, recvd, call, obs>>

\* a skip test that compares the pixels and not the sizes
Skipped_whatever_size(screen, prev_screen, pos1, pos2) ==
    /\ Index(screen, pos1) = Index(prev_screen, pos1)
    /\ Index(screen, pos2) = Index(prev_screen, pos2)

\* the skip test of one character cell
Skipped(screen, prev_screen, pos1, pos2) ==
    /\ screen.size = prev_screen.size
    /\ Index(screen, pos1) = Index(prev_screen, pos1)
    /\ Index(screen, pos2) = Index(prev_screen, pos2)

\* an update that selects both colors for every cell
UpdateColor_both(s1, s2, fore, back) ==
    [fore |-> s1, back |-> s2, out |-> <<Fmt_fore(s1), Fmt_back(s2)>>]

\* "update color": the new fore and back and the escapes printed
UpdateColor(s1, s2, fore, back) ==
    CASE s1 # back /\ s1 # fore /\ s2 = back ->
            [fore |-> s1, back |-> back, out |-> <<Fmt_fore(s1)>>]
      [] s1 # back /\ s1 # fore /\ s2 = fore ->
            [fore |-> fore, back |-> s1, out |-> <<Fmt_back(s1)>>]
      [] s2 # back /\ s2 # fore /\ s1 = back ->
            [fore |-> s2, back |-> back, out |-> <<Fmt_fore(s2)>>]
      [] s2 # back /\ s2 # fore /\ s1 = fore ->
            [fore |-> fore, back |-> s2, out |-> <<Fmt_back(s2)>>]
      [] s1 # back /\ s1 # fore /\ s2 # back /\ s2 # fore ->
            [fore |-> s1, back |-> s2, out |-> <<Fmt_fore(s1), Fmt_back(s2)>>]
      [] OTHER -> [fore |-> fore, back |-> back, out |-> <<>>]

\* "print pixel" with the two half blocks exchanged
PrintPixel_swapped(s1, s2, fore, back) ==
    CASE s1 = back /\ s2 = back -> <<Tok_glyph(" ")>>
      [] s1 = back /\ s2 = fore -> <<Tok_glyph("upper")>>
      [] s1 = fore /\ s2 = back -> <<Tok_glyph("lower")>>
      [] s1 = fore /\ s2 = fore -> <<Tok_glyph("full")>>
      [] OTHER -> <<>>

\* "print pixel": the glyph printed for the two pixels
PrintPixel(s1, s2, fore, back) ==
    CASE s1 = back /\ s2 = back -> <<Tok_glyph(" ")>>
      [] s1 = back /\ s2 = fore -> <<Tok_glyph("lower")>>
      [] s1 = fore /\ s2 = back -> <<Tok_glyph("upper")>>
      [] s1 = fore /\ s2 = fore -> <<Tok_glyph("full")>>
      [] OTHER -> <<>>

\* one iteration of the inner loop of the flush, for the cell (i, j/2)
FlushCell ==
    /\ alive /\ srv.pc = "flush"
    /\ LET pos1 == Vec2_new(srv.i, srv.j)
           pos2 == Vec2_new(srv.i, srv.j + 1)
           s1 == Index(srv.screen, pos1)
           s2 == Index(srv.screen, pos2)
           skip == Skipped(srv.screen, srv.prev_screen, pos1, pos2)
           col == UpdateColor(s1, s2, srv.fore, srv.back)
           cup == IF srv.skiped THEN <<Tok_cup(Div(srv.j, 2) + 1, srv.i + 1)>> ELSE <<>>
           glyph == PrintPixel(s1, s2, col.fore, col.back)
           ni == IF srv.i + 1 < srv.screen_size.x THEN srv.i + 1 ELSE 0
           nj == IF srv.i + 1 < srv.screen_size.x THEN srv.j ELSE srv.j + 2
           npc == IF nj < srv.screen_size.y THEN "flush" ELSE "flush_end"
       IN IF skip
          THEN /\ srv' = [srv EXCEPT !.skiped = TRUE, !.i = ni, !.j = nj, !.pc = npc]
               /\ obs' = [obs EXCEPT !.skip = @ + 1]
               /\ UNCHANGED tty
          ELSE /\ srv' = [srv EXCEPT !.fore = col.fore, !.back = col.back,
                                     !.skiped = FALSE, !.i = ni, !.j = nj, !.pc = npc]
               /\ tty' = TermWrite(tty, col.out \o cup \o glyph)
               /\ obs' = [obs EXCEPT !.esc = @ + Len(col.out),
                                     !.cup = @ + Len(cup),
                                     !.glyph = @ + Len(glyph)]
    /\ UNCHANGED <<alive, RENDERER, pc, pgen, queue, frame_barrier, sent, recvd, call>>

\* the end of the flush without the copy to prev_screen
FlushEnd_no_copy ==
    /\ alive /\ srv.pc = "flush_end"
    /\ srv' = [srv EXCEPT !.pc = "recv"]
    /\ obs' = [obs EXCEPT !.flushes = @ + 1, !.flushed = srv.screen]
    /\ UNCHANGED <<alive, RENDERER, pc, pgen, queue, frame_barrier, tty, sent, recvd, call>>

\* after the loops: stdout is flushed and the canvas is copied to prev_screen
FlushEnd ==
    /\ alive /\ srv.pc = "flush_end"
    /\ srv' = [srv EXCEPT !.prev_screen = srv.screen, !.pc = "recv"]
    /\ obs' = [obs EXCEPT !.flushes = @ + 1, !.flushed = srv.screen]
    /\ UNCHANGED <<alive, RENDERER, pc, pgen, queue, frame_barrier, tty, sent, recvd, call>>

\* the user resizes the terminal window
TerminalResize ==
    /\ alive /\ RENDERER # None
    /\ obs.resizes < MaxResizes
    /\ \E size \in Sizes \ {tty.size} : tty' = TermResized(tty, size)
    /\ obs' = [obs EXCEPT !.resizes = @ + 1]
    /\ UNCHANGED <<alive, RENDERER, pc, pgen, queue, frame_barrier, srv, sent, recvd, call>>

(***************************************************************************)
(* The renderer's specification                                            *)
(***************************************************************************)
InitRenderer ==
    /\ alive = TRUE
    /\ RENDERER = None
    /\ pc = "run"
    /\ pgen = 0
    /\ queue = <<>>
    /\ frame_barrier = [count |-> 0, generation_id |-> 0]
    /\ srv = [pc |-> "none", screen_size |-> ZERO, screen |-> Image_new(0, 0),
              prev_screen |-> Image_new(0, 0), back |-> BLACK, fore |-> BLACK,
              skiped |-> FALSE, i |-> 0, j |-> 0, gen |-> 0]
    /\ \E lf \in InitLflags, cc \in InitCc, size \in Sizes :
          tty = [c_lflag |-> lf, c_cc |-> cc, size |-> size,
                 cursor_visible |-> TRUE, alt |-> FALSE, mouse |-> FALSE,
                 fg |-> Default, bg |-> Default, cur |-> ZERO,
                 cells |-> [q \in Grid(size) |-> Blank]]
    /\ sent = <<>>
    /\ recvd = <<>>
    /\ call = [op |-> "none", bf |-> FALSE, outcome |-> "ok", enq |-> 0, n |-> 0]
    /\ obs = [frames |-> 0, draws |-> 0, resizes |-> 0, sizeEpoch |-> 0, flushes |-> 0,
              esc |-> 0, glyph |-> 0, cup |-> 0, skip |-> 0, flushed |-> Image_new(0, 0),
              c_lflag |-> tty.c_lflag, c_cc |-> tty.c_cc]

InitInputIdle ==
    /\ stdin = <<>>
    /\ stdin_eof = FALSE
    /\ lst = [pc |-> "run", mb |-> "Left", checks |-> FALSE, app |-> "run"]
    /\ input_chan = <<>>
    /\ ilog = [typed |-> <<>>, decoded |-> <<>>, published |-> <<>>, received |-> <<>>,
               last |-> None, by |-> "none"]

InitCanvasIdle ==
    /\ canvas = Image_new(0, 0)
    /\ cop = [op |-> "none", a |-> ZERO, b |-> ZERO, c |-> BLACK, before |-> Image_new(0, 0)]

InitDecoderIdle ==
    decoder = [src |-> None, bs |-> <<>>, rest |-> <<>>, eof |-> FALSE, checks |-> FALSE,
               res |-> None]

InitSwatchIdle == swatch = [h |-> 0, color |-> None]

InitRasterIdle == raster = [size |-> ZERO, checks |-> FALSE, at |-> "none"]

InitVecsIdle == vecs = [a |-> ZERO, b |-> ZERO, op |-> "none", res |-> None]

InitArithmeticIdle == InitRasterIdle /\ InitVecsIdle

InitFunctionsIdle == InitDecoderIdle /\ InitSwatchIdle /\ InitArithmeticIdle

Init == InitRenderer /\ InitInputIdle /\ InitCanvasIdle /\ InitFunctionsIdle

Next ==
    \/ (Get /\ UNCHANGED <<ivars, cvars, fvars>>)
    \/ (Exit /\ UNCHANGED <<ivars, cvars, fvars>>)
    \/ (BeginDraw /\ UNCHANGED <<ivars, cvars, fvars>>)
    \/ (BeginDrawWait /\ UNCHANGED <<ivars, cvars, fvars>>)
    \/ (BeginDrawReturn /\ UNCHANGED <<ivars, cvars, fvars>>)
    \/ (EndDraw /\ UNCHANGED <<ivars, cvars, fvars>>)
    \/ (clear_screen /\ UNCHANGED <<ivars, cvars, fvars>>)
    \/ (draw_line /\ UNCHANGED <<ivars, cvars, fvars>>)
    \/ (draw_rect /\ UNCHANGED <<ivars, cvars, fvars>>)
    \/ (draw_rect_boundary /\ UNCHANGED <<ivars, cvars, fvars>>)
    \/ (draw_ellipse_boundary /\ UNCHANGED <<ivars, cvars, fvars>>)
    \/ (draw_point /\ UNCHANGED <<ivars, cvars, fvars>>)
    \/ (WorkerStart /\ UNCHANGED <<ivars, cvars, fvars>>)
    \/ (WorkerRecv /\ UNCHANGED <<ivars, cvars, fvars>>)
    \/ (WorkerBarrierReturn /\ UNCHANGED <<ivars, cvars, fvars>>)
    \/ (FlushCell /\ UNCHANGED <<ivars, cvars, fvars>>)
    \/ (FlushEnd /\ UNCHANGED <<ivars, cvars, fvars>>)
    \/ (TerminalResize /\ UNCHANGED <<ivars, cvars, fvars>>)

Spec == Init /\ [][Next]_vars

\* the steps of the rendering thread
Worker ==
    /\ WorkerStart \/ WorkerRecv \/ WorkerBarrierReturn \/ FlushCell \/ FlushEnd
    /\ UNCHANGED <<ivars, cvars, fvars>>

\* the steps of a begin_draw that has sent its directives
BeginDrawBlocked ==
    /\ BeginDrawWait \/ BeginDrawReturn
    /\ UNCHANGED <<ivars, cvars, fvars>>

\* the renderer with both threads scheduled fairly: the rendering thread
\* takes its next step when it has one, and so does a caller inside
\* frame_barrier.wait()
\* the renderer driven with one kind of draw call
NextLive ==
    \/ (Get /\ UNCHANGED <<ivars, cvars, fvars>>)
    \/ (Exit /\ UNCHANGED <<ivars, cvars, fvars>>)
    \/ (BeginDraw /\ UNCHANGED <<ivars, cvars, fvars>>)
    \/ (BeginDrawWait /\ UNCHANGED <<ivars, cvars, fvars>>)
    \/ (BeginDrawReturn /\ UNCHANGED <<ivars, cvars, fvars>>)
    \/ (EndDraw /\ UNCHANGED <<ivars, cvars, fvars>>)
    \/ (draw_point /\ UNCHANGED <<ivars, cvars, fvars>>)
    \/ (WorkerStart /\ UNCHANGED <<ivars, cvars, fvars>>)
    \/ (WorkerRecv /\ UNCHANGED <<ivars, cvars, fvars>>)
    \/ (WorkerBarrierReturn /\ UNCHANGED <<ivars, cvars, fvars>>)
    \/ (FlushCell /\ UNCHANGED <<ivars, cvars, fvars>>)
    \/ (FlushEnd /\ UNCHANGED <<ivars, cvars, fvars>>)
    \/ (TerminalResize /\ UNCHANGED <<ivars, cvars, fvars>>)

SpecLive == Init /\ [][NextLive]_vars /\ WF_vars(Worker) /\ WF_vars(BeginDrawBlocked)

(***************************************************************************)
(* input.rs: events                                                        *)
(***************************************************************************)
Key(k) == [t |-> "Key", k |-> k, v |-> 0]

KeyV(k, v) == [t |-> "Key", k |-> k, v |-> v]

Mouse(m, button, pos) == [t |-> "Mouse", m |-> m, button |-> button, pos |-> pos]

\* a position in character cells, both rows of a cell taken as one
get_real_mouse_pos_cells(cx, cy) == Vec2_new(cx - 1, cy - 1)

get_real_mouse_pos(cx, cy) == Vec2_new(cx - 1, 2 * cy - 2)

(***************************************************************************)
(* input.rs: the decoder.  bs holds the bytes the source can deliver now,  *)
(* k is the index of the next unread byte, eof tells whether the source    *)
(* has ended.  A result is "ok" (with the event), "err" (Err or None),     *)
(* "panic" (an unwrap or an index failed) or "more" (the read blocks).     *)
(***************************************************************************)
R_ok(ev, k) == [st |-> "ok", ev |-> ev, k |-> k]

R_err(k) == [st |-> "err", ev |-> None, k |-> k]

R_panic(k) == [st |-> "panic", ev |-> None, k |-> k]

R_more == [st |-> "more", ev |-> None, k |-> 0]

\* the bytes named in the source
ESC == 27

InRange(b, lo, hi) == lo <= b /\ b <= hi

IsCont(b) == InRange(b, 128, 191)

\* the length of the well-formed UTF-8 character at the head of bytes, 0 if none
Utf8Len(bytes) ==
    LET n == Len(bytes)
        b1 == bytes[1]
    IN CASE b1 < 128 -> 1
         [] InRange(b1, 194, 223) /\ n >= 2 /\ IsCont(bytes[2]) -> 2
         [] b1 = 224 /\ n >= 3 /\ InRange(bytes[2], 160, 191) /\ IsCont(bytes[3]) -> 3
         [] (InRange(b1, 225, 236) \/ InRange(b1, 238, 239))
               /\ n >= 3 /\ IsCont(bytes[2]) /\ IsCont(bytes[3]) -> 3
         [] b1 = 237 /\ n >= 3 /\ InRange(bytes[2], 128, 159) /\ IsCont(bytes[3]) -> 3
         [] b1 = 240 /\ n >= 4 /\ InRange(bytes[2], 144, 191)
               /\ IsCont(bytes[3]) /\ IsCont(bytes[4]) -> 4
         [] InRange(b1, 241, 243) /\ n >= 4 /\ IsCont(bytes[2])
               /\ IsCont(bytes[3]) /\ IsCont(bytes[4]) -> 4
         [] b1 = 244 /\ n >= 4 /\ InRange(bytes[2], 128, 143)
               /\ IsCont(bytes[3]) /\ IsCont(bytes[4]) -> 4
         [] OTHER -> 0

\* str::from_utf8(bytes).is_ok()
RECURSIVE from_utf8_ok(_)
from_utf8_ok(bytes) ==
    IF bytes = <<>> THEN TRUE
    ELSE LET n == Utf8Len(bytes)
         IN n > 0 /\ from_utf8_ok(SubSeq(bytes, n + 1, Len(bytes)))

\* st.chars().next(): the code point of the first character
FirstChar(bytes) ==
    LET n == Utf8Len(bytes)
    IN CASE n = 1 -> bytes[1]
         [] n = 2 -> (bytes[1] % 32) * 64 + (bytes[2] % 64)
         [] n = 3 -> (bytes[1] % 16) * 4096 + (bytes[2] % 64) * 64 + (bytes[3] % 64)
         [] n = 4 -> (bytes[1] % 8) * 262144 + (bytes[2] % 64) * 4096
                       + (bytes[3] % 64) * 64 + (bytes[4] % 64)

\* a loop that gives up once three bytes are accumulated
RECURSIVE utf8_loop_three(_, _, _, _)
utf8_loop_three(bytes, bs, k, eof) ==
    IF k > Len(bs)
    THEN (IF eof THEN R_err(k) ELSE R_more)
    ELSE LET nb == Append(bytes, bs[k])
         IN IF from_utf8_ok(nb) THEN R_ok(FirstChar(nb), k + 1)
            ELSE IF Len(nb) >= 3 THEN R_err(k + 1)
            ELSE utf8_loop_three(nb, bs, k + 1, eof)

\* the loop of parse_utf8_char: bytes is the buffer, bs[k] the next byte
RECURSIVE utf8_loop(_, _, _, _)
utf8_loop(bytes, bs, k, eof) ==
    IF k > Len(bs)
    THEN (IF eof THEN R_err(k) ELSE R_more)
    ELSE LET nb == Append(bytes, bs[k])
         IN IF from_utf8_ok(nb) THEN R_ok(FirstChar(nb), k + 1)
            ELSE IF Len(nb) >= 4 THEN R_err(k + 1)
            ELSE utf8_loop(nb, bs, k + 1, eof)

\* parse_utf8_char: ev is the code point
parse_utf8_char(c, bs, k, eof) ==
    IF c < 128 THEN R_ok(c, k) ELSE utf8_loop(<<c>>, bs, k, eof)

\* str::split(';')
RECURSIVE Split(_, _, _)
Split(buf, sep, cur) ==
    IF buf = <<>> THEN <<cur>>
    ELSE IF Head(buf) = sep THEN <<cur>> \o Split(Tail(buf), sep, <<>>)
    ELSE Split(Tail(buf), sep, Append(cur, Head(buf)))

RECURSIVE DigitsValue(_, _)
DigitsValue(ds, acc) ==
    IF ds = <<>> THEN acc ELSE DigitsValue(Tail(ds), acc * 10 + (Head(ds) - 48))

\* str::parse for an unsigned type of maximum max: the value, or -1 for Err
ParseUint(str, max) ==
    LET ds == IF str # <<>> /\ Head(str) = 43 THEN Tail(str) ELSE str
    IN IF ds = <<>> \/ \E i \in 1..Len(ds) : ~InRange(ds[i], 48, 57) THEN -1
       ELSE IF DigitsValue(ds, 0) > max THEN -1
       ELSE DigitsValue(ds, 0)

U16_MAX == 65535

U8_MAX == 255

\* the loop that collects bytes up to a terminator in stop; running out of
\* bytes at the end of the source fails the unwrap
RECURSIVE collect(_, _, _, _, _)
collect(buf, bs, k, eof, stop) ==
    IF k > Len(bs)
    THEN (IF eof THEN R_panic(k) ELSE R_more)
    ELSE IF bs[k] \in stop THEN [st |-> "ok", ev |-> buf, k |-> k + 1, c |-> bs[k]]
    ELSE collect(Append(buf, bs[k]), bs, k + 1, eof, stop)

\* X10 emulation mouse encoding: ESC [ M Cb Cx Cy.  checks tells whether the
\* build checks arithmetic overflow (next() as i8 - 32)
csi_x10(bs, k, eof, checks) ==
    IF k > Len(bs)
    THEN (IF eof THEN R_panic(k) ELSE R_more)
    ELSE LET b == bs[k]
             i8 == IF b < 128 THEN b ELSE b - 256
             raw == i8 - 32
             cb == IF raw < -128 THEN raw + 256 ELSE raw
             u == (cb + 256) % 256
             cx == Max(bs[k + 1] - 32, 0)
             cy == Max(bs[k + 2] - 32, 0)
             pos == get_real_mouse_pos(cx, cy)
             wheel == (u \div 64) % 2 # 0
         IN IF raw < -128 /\ checks THEN R_panic(k + 1)
            ELSE IF k + 2 > Len(bs) THEN (IF eof THEN R_panic(Len(bs) + 1) ELSE R_more)
            ELSE R_ok(CASE u % 4 = 0 ->
                             Mouse("ButtonPressed", IF wheel THEN "WheelUp" ELSE "Left", pos)
                        [] u % 4 = 1 ->
                             Mouse("ButtonPressed", IF wheel THEN "WheelDown" ELSE "Middle", pos)
                        [] u % 4 = 2 -> Mouse("ButtonPressed", "Right", pos)
                        [] u % 4 = 3 -> Mouse("ButtonReleased", "Left", pos),
                      k + 3)

\* xterm mouse encoding: ESC [ < Cb ; Cx ; Cy (;) (M or m)
csi_xterm(bs, k, eof) ==
    LET r == collect(<<>>, bs, k, eof, {109, 77})
    IN IF r.st # "ok" THEN r
       ELSE IF ~from_utf8_ok(r.ev) THEN R_panic(r.k)
       ELSE LET nums == Split(r.ev, 59, <<>>)
                cb == ParseUint(nums[1], U16_MAX)
                cx == IF Len(nums) >= 2 THEN ParseUint(nums[2], U16_MAX) ELSE -1
                cy == IF Len(nums) >= 3 THEN ParseUint(nums[3], U16_MAX) ELSE -1
                pos == get_real_mouse_pos(cx, cy)
            IN IF cb < 0 \/ cx < 0 \/ cy < 0 THEN R_panic(r.k)
               ELSE IF cb \in {0, 1, 2, 64, 65}
               THEN LET button == CASE cb = 0 -> "Left"
                                    [] cb = 1 -> "Middle"
                                    [] cb = 2 -> "Right"
                                    [] cb = 64 -> "WheelUp"
                                    [] cb = 65 -> "WheelDown"
                    IN IF r.c = 77 THEN R_ok(Mouse("ButtonPressed", button, pos), r.k)
                       ELSE R_ok(Mouse("ButtonReleased", "Left", pos), r.k)
               ELSE IF cb = 32 THEN R_ok(Mouse("Hold", "Left", pos), r.k)
               ELSE IF cb = 3 THEN R_ok(Mouse("ButtonReleased", "Left", pos), r.k)
               ELSE R_err(r.k)

\* the special keys of ESC [ n ~
SpecialKey(n, k) ==
    CASE n \in {1, 7} -> R_ok(Key("Home"), k)
      [] n = 2 -> R_ok(Key("Insert"), k)
      [] n = 3 -> R_ok(Key("Delete"), k)
      [] n \in {4, 8} -> R_ok(Key("End"), k)
      [] n = 5 -> R_ok(Key("PageUp"), k)
      [] n = 6 -> R_ok(Key("PageDown"), k)
      [] n \in 11..15 -> R_ok(KeyV("F", n - 10), k)
      [] n \in 17..21 -> R_ok(KeyV("F", n - 11), k)
      [] n \in 23..24 -> R_ok(KeyV("F", n - 12), k)
      [] OTHER -> R_err(k)

\* numbered escape code: ESC [ digit ... final; c0 is the digit already read
csi_numbered(c0, bs, k, eof) ==
    LET r == collect(<<c0>>, bs, k, eof, 64..126)
    IN IF r.st # "ok" THEN r
       ELSE IF r.c = 77
       THEN \* rxvt mouse encoding: ESC [ Cb ; Cx ; Cy ; M
            IF ~from_utf8_ok(r.ev) THEN R_panic(r.k)
            ELSE LET strs == Split(r.ev, 59, <<>>)
                     nums == [i \in 1..Len(strs) |-> ParseUint(strs[i], U16_MAX)]
                 IN IF \E i \in 1..Len(nums) : nums[i] < 0 THEN R_panic(r.k)
                    ELSE IF Len(nums) < 3 THEN R_panic(r.k)
                    ELSE LET cb == nums[1]
                             pos == get_real_mouse_pos(nums[2], nums[3])
                         IN CASE cb = 32 -> R_ok(Mouse("ButtonPressed", "Left", pos), r.k)
                              [] cb = 33 -> R_ok(Mouse("ButtonPressed", "Middle", pos), r.k)
                              [] cb = 34 -> R_ok(Mouse("ButtonPressed", "Right", pos), r.k)
                              [] cb = 35 -> R_ok(Mouse("ButtonReleased", "Left", pos), r.k)
                              [] cb = 64 -> R_ok(Mouse("Hold", "Left", pos), r.k)
                              [] cb \in {96, 97} -> R_ok(Mouse("ButtonPressed", "WheelUp", pos), r.k)
                              [] OTHER -> R_err(r.k)
       ELSE IF r.c = 126
       THEN IF ~from_utf8_ok(r.ev) THEN R_panic(r.k)
            ELSE LET strs == Split(r.ev, 59, <<>>)
                     nums == [i \in 1..Len(strs) |-> ParseUint(strs[i], U8_MAX)]
                 IN IF \E i \in 1..Len(nums) : nums[i] < 0 THEN R_panic(r.k)
                    ELSE IF Len(nums) > 1 THEN R_err(r.k)
                    ELSE SpecialKey(nums[1], r.k)
       ELSE R_err(r.k)

\* a parse_csi that recognizes no sequence
parse_csi_unrecognized(bs, k, eof, checks) == R_err(k + 1)

\* parse_csi, just after ESC [
parse_csi(bs, k, eof, checks) ==
    IF k > Len(bs) THEN (IF eof THEN R_err(k) ELSE R_more)
    ELSE LET c == bs[k]
         IN CASE c = 91 ->
                   IF k + 1 > Len(bs) THEN (IF eof THEN R_err(k + 1) ELSE R_more)
                   ELSE IF InRange(bs[k + 1], 65, 69)
                        THEN R_ok(KeyV("F", 1 + bs[k + 1] - 65), k + 2)
                        ELSE R_err(k + 2)
              [] c = 68 -> R_ok(Key("Left"), k + 1)
              [] c = 67 -> R_ok(Key("Right"), k + 1)
              [] c = 65 -> R_ok(Key("Up"), k + 1)
              [] c = 66 -> R_ok(Key("Down"), k + 1)
              [] c = 72 -> R_ok(Key("Home"), k + 1)
              [] c = 70 -> R_ok(Key("End"), k + 1)
              [] c = 90 -> R_ok(Key("BackTab"), k + 1)
              [] c = 77 -> csi_x10(bs, k + 1, eof, checks)
              [] c = 60 -> csi_xterm(bs, k + 1, eof)
              [] InRange(c, 48, 57) -> csi_numbered(c, bs, k + 1, eof)
              [] OTHER -> R_err(k + 1)

\* parse_event with the arm of 0x01..0x1A ahead of the arms of \n, \r and \t
parse_event_ctrl_first(bs, eof, checks) ==
    LET item == bs[1]
    IN IF InRange(item, 1, 26) THEN R_ok(KeyV("Ctrl", item - 1 + 97), 2)
       ELSE IF item = ESC
       THEN IF 2 > Len(bs) THEN (IF eof THEN R_err(2) ELSE R_more)
            ELSE IF bs[2] = 79
                 THEN IF 3 > Len(bs) THEN (IF eof THEN R_err(3) ELSE R_more)
                      ELSE IF InRange(bs[3], 80, 83)
                           THEN R_ok(KeyV("F", 1 + bs[3] - 80), 4)
                           ELSE R_err(4)
            ELSE IF bs[2] = 91 THEN parse_csi(bs, 3, eof, checks)
            ELSE LET r == parse_utf8_char(bs[2], bs, 3, eof)
                 IN IF r.st = "ok" THEN R_ok(KeyV("Alt", r.ev), r.k) ELSE r
       ELSE IF item = 127 THEN R_ok(Key("Backspace"), 2)
       ELSE IF InRange(item, 28, 31) THEN R_ok(KeyV("Ctrl", item - 28 + 52), 2)
       ELSE IF item = 0 THEN R_ok(Key("Null"), 2)
       ELSE LET r == parse_utf8_char(item, bs, 2, eof)
            IN IF r.st = "ok" THEN R_ok(KeyV("Char", r.ev), r.k) ELSE r

\* parse_event(item, iter); item is bs[1], already read by the caller
parse_event(bs, eof, checks) ==
    LET item == bs[1]
    IN CASE item = ESC ->
              IF 2 > Len(bs) THEN (IF eof THEN R_err(2) ELSE R_more)
              ELSE IF bs[2] = 79
                   THEN IF 3 > Len(bs) THEN (IF eof THEN R_err(3) ELSE R_more)
                        ELSE IF InRange(bs[3], 80, 83)
                             THEN R_ok(KeyV("F", 1 + bs[3] - 80), 4)
                             ELSE R_err(4)
              ELSE IF bs[2] = 91 THEN parse_csi(bs, 3, eof, checks)
              ELSE LET r == parse_utf8_char(bs[2], bs, 3, eof)
                   IN IF r.st = "ok" THEN R_ok(KeyV("Alt", r.ev), r.k) ELSE r
         [] item \in {10, 13} -> R_ok(KeyV("Char", 10), 2)
         [] item = 9 -> R_ok(KeyV("Char", 9), 2)
         [] item = 127 -> R_ok(Key("Backspace"), 2)
         [] InRange(item, 1, 26) /\ item \notin {9, 10, 13} ->
              R_ok(KeyV("Ctrl", item - 1 + 97), 2)
         [] InRange(item, 28, 31) -> R_ok(KeyV("Ctrl", item - 28 + 52), 2)
         [] item = 0 -> R_ok(Key("Null"), 2)
         [] OTHER ->
              LET r == parse_utf8_char(item, bs, 2, eof)
              IN IF r.st = "ok" THEN R_ok(KeyV("Char", r.ev), r.k) ELSE r

(***************************************************************************)
(* input.rs: Input, the listener thread and the application's side         *)
(***************************************************************************)
\* the byte sequences the terminal sends: keys, mouse reports, and malformed
\* or unrecognized sequences
Chunks ==
    {<<ESC, 91, 65>>,                                     \* ESC [ A
     <<ESC, 91, 60, 50, 59, 53, 59, 49, 48, 77>>,         \* ESC [ < 2 ; 5 ; 10 M
     <<ESC, 91, 60, 51, 50, 59, 54, 59, 49, 48, 77>>,     \* ESC [ < 32 ; 6 ; 10 M
     <<ESC, 91, 60, 48, 59, 55, 59, 49, 48, 109>>,        \* ESC [ < 0 ; 7 ; 10 m
     <<ESC, 91, 77, 33, 37, 42>>,                         \* ESC [ M ! % *  (X10)
     <<ESC, 91, 51, 53, 59, 49, 59, 49, 77>>,             \* ESC [ 35 ; 1 ; 1 M
     <<ESC, 91, 60, 97, 59, 49, 59, 49, 77>>,             \* ESC [ < a ; 1 ; 1 M
     <<ESC, 91, 60, 48, 59, 53, 77>>,                     \* ESC [ < 0 ; 5 M
     <<ESC, 91, 120>>,                                    \* ESC [ x
     <<195>>,                                             \* a lone UTF-8 lead byte
     <<195, 169>>,                                        \* e acute
     <<ESC>>,                                             \* the Esc key
     \* a drag: ESC [ < 2 ; 5 ; 10 M  ESC [ < 32 ; 6 ; 10 M  ESC [ < 0 ; 7 ; 10 m
     <<ESC, 91, 60, 50, 59, 53, 59, 49, 48, 77,
       ESC, 91, 60, 51, 50, 59, 54, 59, 49, 48, 77,
       ESC, 91, 60, 48, 59, 55, 59, 49, 48, 109>>}

\* the terminal sends one more sequence
Type ==
    /\ ~stdin_eof
    /\ Len(ilog.typed) < MaxChunks
    /\ \E ch \in Chunks :
          /\ stdin' = stdin \o ch
          /\ ilog' = [ilog EXCEPT !.typed = Append(@, ch)]
    /\ UNCHANGED <<stdin_eof, lst, input_chan>>

\* the byte source ends
CloseInput ==
    /\ ~stdin_eof
    /\ stdin_eof' = TRUE
    /\ UNCHANGED <<stdin, lst, input_chan, ilog>>

\* the listener without the memory of the pressed button
Remember_nothing(mb, evt) == [event |-> evt, mb |-> mb]

\* the listener's match on the decoded event: the event to publish and the
\* new value of mb
Remember(mb, evt) ==
    IF evt.t = "Mouse" /\ evt.m = "ButtonPressed" THEN [event |-> evt, mb |-> evt.button]
    ELSE IF evt.t = "Mouse" /\ evt.m = "ButtonReleased"
         THEN [event |-> Mouse("ButtonReleased", mb, evt.pos), mb |-> mb]
    ELSE IF evt.t = "Mouse" /\ evt.m = "Hold"
         THEN [event |-> Mouse("Hold", mb, evt.pos), mb |-> mb]
    ELSE [event |-> evt, mb |-> mb]

\* a listener that publishes the bytes of a failed decode as Unsupported
Listen_publishes_failures ==
    /\ lst.pc = "run"
    /\ stdin # <<>>
    /\ LET r == parse_event(stdin, stdin_eof, lst.checks)
       IN /\ r.st # "more"
          /\ stdin' = SubSeq(stdin, r.k, Len(stdin))
          /\ CASE r.st = "ok" ->
                    LET m == Remember(lst.mb, r.ev)
                    IN /\ lst' = [lst EXCEPT !.mb = m.mb]
                       /\ input_chan' = Append(input_chan, m.event)
                       /\ ilog' = [ilog EXCEPT !.decoded = Append(@, r.ev),
                                               !.published = Append(@, m.event)]
               [] r.st = "err" ->
                    LET u == [t |-> "Unsupported", k |-> "", v |-> 0]
                    IN /\ input_chan' = Append(input_chan, u)
                       /\ ilog' = [ilog EXCEPT !.published = Append(@, u)]
                       /\ UNCHANGED lst
               [] r.st = "panic" ->
                    /\ lst' = [lst EXCEPT !.pc = "panicked"]
                    /\ UNCHANGED <<input_chan, ilog>>
    /\ UNCHANGED stdin_eof

\* one turn of the listener's loop: read a byte, decode, publish.  The turn
\* waits while the decoder's reads block.
Listen ==
    /\ lst.pc = "run"
    /\ stdin # <<>>
    /\ LET r == parse_event(stdin, stdin_eof, lst.checks)
       IN /\ r.st # "more"
          /\ stdin' = SubSeq(stdin, r.k, Len(stdin))
          /\ CASE r.st = "ok" ->
                    LET m == Remember(lst.mb, r.ev)
                    IN /\ lst' = [lst EXCEPT !.mb = m.mb]
                       /\ input_chan' = Append(input_chan, m.event)
                       /\ ilog' = [ilog EXCEPT !.decoded = Append(@, r.ev),
                                               !.published = Append(@, m.event)]
               [] r.st = "err" -> UNCHANGED <<lst, input_chan, ilog>>
               [] r.st = "panic" ->
                    /\ lst' = [lst EXCEPT !.pc = "panicked"]
                    /\ UNCHANGED <<input_chan, ilog>>
    /\ UNCHANGED stdin_eof

\* a get_event that returns the oldest event and leaves it in the channel
get_event_peek ==
    /\ lst.app = "run"
    /\ IF input_chan # <<>>
       THEN ilog' = [ilog EXCEPT !.received = Append(@, Head(input_chan)),
                                 !.last = Head(input_chan), !.by = "get_event"]
       ELSE ilog' = [ilog EXCEPT !.last = None, !.by = "get_event"]
    /\ UNCHANGED <<stdin, stdin_eof, lst, input_chan>>

\* Input::get_event: try_recv().ok()
get_event ==
    /\ lst.app = "run"
    /\ IF input_chan # <<>>
       THEN /\ input_chan' = Tail(input_chan)
            /\ ilog' = [ilog EXCEPT !.received = Append(@, Head(input_chan)),
                                    !.last = Head(input_chan), !.by = "get_event"]
       ELSE /\ ilog' = [ilog EXCEPT !.last = None, !.by = "get_event"]
            /\ UNCHANGED input_chan
    /\ UNCHANGED <<stdin, stdin_eof, lst>>

\* Input::get_event_blocking: recv() waits for an event, and fails once the
\* listener has gone and the channel is empty
get_event_blocking ==
    /\ lst.app = "run"
    /\ IF input_chan # <<>>
       THEN /\ input_chan' = Tail(input_chan)
            /\ ilog' = [ilog EXCEPT !.received = Append(@, Head(input_chan)),
                                    !.last = Head(input_chan), !.by = "get_event_blocking"]
            /\ UNCHANGED lst
       ELSE /\ lst.pc = "panicked"
            /\ lst' = [lst EXCEPT !.app = "panicked"]
            /\ UNCHANGED <<input_chan, ilog>>
    /\ UNCHANGED <<stdin, stdin_eof>>

InitInput ==
    /\ stdin = <<>>
    /\ stdin_eof = FALSE
    /\ \E checks \in BOOLEAN :
          lst = [pc |-> "run", mb |-> "Left", checks |-> checks, app |-> "run"]
    /\ input_chan = <<>>
    /\ ilog = [typed |-> <<>>, decoded |-> <<>>, published |-> <<>>, received |-> <<>>,
               last |-> None, by |-> "none"]

NextInput ==
    \/ (Type /\ UNCHANGED <<rvars, cvars, fvars>>)
    \/ (CloseInput /\ UNCHANGED <<rvars, cvars, fvars>>)
    \/ (Listen /\ UNCHANGED <<rvars, cvars, fvars>>)
    \/ (get_event /\ UNCHANGED <<rvars, cvars, fvars>>)
    \/ (get_event_blocking /\ UNCHANGED <<rvars, cvars, fvars>>)

InitListening ==
    /\ InitRenderer
    /\ tty.size = [col |-> 1, row |-> 1]
    /\ InitInput
    /\ InitCanvasIdle
    /\ InitFunctionsIdle

SpecInput == InitListening /\ [][NextInput]_vars

(***************************************************************************)
(* img.rs: an Image used on its own, under every operation of its API      *)
(***************************************************************************)
\* the sizes (w, h) an Image is created with or resized to
CanvasSizes == {<<3, 2>>, <<2, 3>>, <<0, 0>>}

\* the coordinates the operations are called with, on and off the canvas
Coords == (0 - 1)..MaxCoord

Points == {Vec2_new(x, y) : x \in Coords, y \in Coords}

\* rectangle sizes, of either sign
Extents == {Vec2_new(x, y) : x \in (0 - MaxExtent)..MaxExtent, y \in (0 - MaxExtent)..MaxExtent}

\* ellipse sizes
EllipseSizes == {Vec2_new(x, y) : x \in 0..MaxEllipse, y \in 0..MaxEllipse}

\* the record of the operation applied: its name, its arguments and the
\* Image it was applied to
Did(op, a, b, c) == [op |-> op, a |-> a, b |-> b, c |-> c, before |-> canvas]

\* an Image of one of the sizes, holding whatever earlier operations left in it
InitCanvas ==
    \E wh \in CanvasSizes :
        \E d \in [1..(wh[1] * wh[2]) -> {BLACK, RED}] :
            /\ canvas = [data |-> d, size |-> Vec2_new(wh[1], wh[2])]
            /\ cop = [op |-> "none", a |-> ZERO, b |-> ZERO, c |-> BLACK, before |-> canvas]

Canvas_resize ==
    /\ cop.op = "none"
    /\ \E wh \in CanvasSizes :
          /\ canvas' = Image_resize(canvas, wh[1], wh[2])
          /\ cop' = Did("resize", Vec2_new(wh[1], wh[2]), ZERO, BLACK)

Canvas_point ==
    /\ cop.op = "none"
    /\ \E p \in Points, c \in {BLACK, RED} :
          /\ canvas' = Image_point(canvas, p, c)
          /\ cop' = Did("point", p, ZERO, c)

Canvas_line ==
    /\ cop.op = "none"
    /\ \E p1 \in Points, p2 \in Points :
          /\ canvas' = Image_line(canvas, p1, p2, RED)
          /\ cop' = Did("line", p1, p2, RED)

Canvas_rect ==
    /\ cop.op = "none"
    /\ \E p \in Points, s \in Extents :
          /\ canvas' = Image_rect(canvas, p, s, RED)
          /\ cop' = Did("rect", p, s, RED)

Canvas_rect_boudary ==
    /\ cop.op = "none"
    /\ \E p \in Points, s \in Extents :
          /\ canvas' = Image_rect_boudary(canvas, p, s, RED)
          /\ cop' = Did("rect_boudary", p, s, RED)

Canvas_ellipse_boundary ==
    /\ cop.op = "none"
    /\ \E center \in Points, size \in EllipseSizes :
          /\ canvas' = Image_ellipse_boundary(canvas, center, size, RED)
          /\ cop' = Did("ellipse_boundary", center, size, RED)

Canvas_clear ==
    /\ cop.op = "none"
    /\ \E c \in {BLACK, RED} :
          /\ canvas' = Image_clear(canvas, c)
          /\ cop' = Did("clear", ZERO, ZERO, c)

InitImage ==
    /\ InitRenderer
    /\ tty.size = [col |-> 1, row |-> 1]
    /\ InitInputIdle
    /\ InitCanvas
    /\ InitFunctionsIdle

NextImage ==
    \/ (Canvas_resize /\ UNCHANGED <<rvars, ivars, fvars>>)
    \/ (Canvas_point /\ UNCHANGED <<rvars, ivars, fvars>>)
    \/ (Canvas_line /\ UNCHANGED <<rvars, ivars, fvars>>)
    \/ (Canvas_rect /\ UNCHANGED <<rvars, ivars, fvars>>)
    \/ (Canvas_rect_boudary /\ UNCHANGED <<rvars, ivars, fvars>>)
    \/ (Canvas_ellipse_boundary /\ UNCHANGED <<rvars, ivars, fvars>>)
    \/ (Canvas_clear /\ UNCHANGED <<rvars, ivars, fvars>>)

SpecImage == InitImage /\ [][NextImage]_vars

(***************************************************************************)
(* img.rs: the i32 arithmetic of ellipse_boundary before its first loop    *)
(***************************************************************************)
\* i32::MAX and i32::MIN
MaxI32 == 2147483647

MinI32 == (0 - MaxI32) - 1

\* an i32 value, or the mark of an operation that overflowed
I32(v) == [ok |-> TRUE, v |-> v]

Overflowed == [ok |-> FALSE, v |-> 0]

\* x + y leaves the i32 range
add_overflows(x, y) == (y > 0 /\ x > MaxI32 - y) \/ (y < 0 /\ x < MinI32 - y)

\* x - y leaves the i32 range
sub_overflows(x, y) == (y < 0 /\ x > MaxI32 + y) \/ (y > 0 /\ x < MinI32 + y)

\* x * y leaves the i32 range
mul_overflows(x, y) ==
    IF x = 0 \/ y = 0 THEN FALSE
    ELSE IF x = MinI32 THEN y # 1
    ELSE IF y = MinI32 THEN x # 1
    ELSE LET ax == Abs(x)
             ay == Abs(y)
         IN IF (x > 0) = (y > 0)
            THEN ax > MaxI32 \div ay
            ELSE /\ ax > MaxI32 \div ay
                 /\ ~(ax = (MaxI32 \div ay) + 1 /\ MaxI32 % ay = ay - 1)

\* the operators +, - and * on i32
i32_add(x, y) ==
    IF ~x.ok \/ ~y.ok THEN Overflowed
    ELSE IF add_overflows(x.v, y.v) THEN Overflowed ELSE I32(x.v + y.v)

i32_sub(x, y) ==
    IF ~x.ok \/ ~y.ok THEN Overflowed
    ELSE IF sub_overflows(x.v, y.v) THEN Overflowed ELSE I32(x.v - y.v)

i32_mul(x, y) ==
    IF ~x.ok \/ ~y.ok THEN Overflowed
    ELSE IF mul_overflows(x.v, y.v) THEN Overflowed ELSE I32(x.v * y.v)

\* x / 4
i32_quarter(x) == IF x.ok THEN I32(Div(x.v, 4)) ELSE Overflowed

\* the values ellipse_boundary computes before its first loop
ellipse_prepare(size) ==
    LET a == I32(Div(size.x, 2))
        b == I32(Div(size.y, 2))
        aa == i32_mul(a, a)
        p == i32_add(i32_mul(b, b),
                     i32_quarter(i32_sub(i32_mul(aa, i32_sub(I32(1), i32_mul(I32(4), b))),
                                         I32(2))))
        dpe == i32_mul(i32_mul(I32(3), b), b)
        dpse == i32_sub(dpe, i32_mul(i32_mul(i32_mul(I32(2), a), a), i32_sub(b, I32(1))))
        d2pe == i32_mul(i32_mul(I32(2), b), b)
        d2pse == i32_add(d2pe, i32_mul(i32_mul(I32(2), a), a))
    IN [p |-> p, dpe |-> dpe, dpse |-> dpse, d2pe |-> d2pe, d2pse |-> d2pse]

\* the widths and heights of the ellipses drawn
RasterExtents == {0 - 4, 0, 3, 200, 1448, 1626, 4000, 65536}

\* a call of ellipse_boundary, in a build with or without overflow checks
InitRasterCall ==
    \E w \in RasterExtents, h \in RasterExtents, checks \in BOOLEAN :
        raster = [size |-> Vec2_new(w, h), checks |-> checks, at |-> "entry"]

\* ellipse_boundary up to its first loop: an operation that overflows panics
\* in a build with overflow checks and wraps in a build without
Ellipse_prepare ==
    /\ raster.at = "entry"
    /\ LET v == ellipse_prepare(raster.size)
           fits == v.p.ok /\ v.dpe.ok /\ v.dpse.ok /\ v.d2pe.ok /\ v.d2pse.ok
       IN raster' = [raster EXCEPT !.at = IF fits THEN "region1"
                                          ELSE IF raster.checks THEN "panicked"
                                          ELSE "wrapped"]
    /\ UNCHANGED <<decoder, swatch, vecs>>

InitRaster ==
    /\ InitRenderer
    /\ tty.size = [col |-> 1, row |-> 1]
    /\ InitInputIdle
    /\ InitCanvasIdle
    /\ InitDecoderIdle
    /\ InitSwatchIdle
    /\ InitRasterCall
    /\ InitVecsIdle

NextRaster == Ellipse_prepare /\ UNCHANGED <<rvars, ivars, cvars>>

SpecRaster == InitRaster /\ [][NextRaster]_vars

(***************************************************************************)
(* input.rs: parse_event used on its own, on the reports a terminal sends  *)
(***************************************************************************)
\* the final bytes of the single-byte CSI sequences: A B C D H F Z
CsiFinals == {65, 66, 67, 68, 72, 70, 90}

\* the button codes, columns and rows of the SGR mouse reports
SgrCodes == {0, 1, 2, 3, 32, 64, 65}

SgrCells == {0, 1, 5, 10, 223, 65535}

\* M and m
SgrFinals == {77, 109}

\* the bytes that may follow a report in the source
Followers == {<<>>, <<65>>, <<ESC, 91, 66>>}

\* a number as the terminal writes it: decimal ASCII digits
RECURSIVE Decimal(_)
Decimal(n) == IF n < 10 THEN <<48 + n>> ELSE Append(Decimal(n \div 10), 48 + (n % 10))

\* the reports: ESC [ f, and ESC [ < Cb ; Cx ; Cy (M or m)
Reports ==
    [kind : {"csi"}, f : CsiFinals, cb : {0}, cx : {0}, cy : {0}]
       \cup [kind : {"sgr"}, f : SgrFinals, cb : SgrCodes, cx : SgrCells, cy : SgrCells]

Encode(src) ==
    IF src.kind = "csi" THEN <<ESC, 91, src.f>>
    ELSE <<ESC, 91, 60>> \o Decimal(src.cb) \o <<59>> \o Decimal(src.cx) \o <<59>>
            \o Decimal(src.cy) \o <<src.f>>

InitDecoder ==
    \E src \in Reports, rest \in Followers, eof \in BOOLEAN, checks \in BOOLEAN :
        decoder = [src |-> src, bs |-> Encode(src) \o rest, rest |-> rest,
                   eof |-> eof, checks |-> checks, res |-> None]

\* parse_event(item, iter) on the source
Decode ==
    /\ decoder.res = None
    /\ decoder' = [decoder EXCEPT !.res = parse_event(decoder.bs, decoder.eof, decoder.checks)]
    /\ UNCHANGED <<swatch, raster, vecs>>

InitParse ==
    /\ InitRenderer
    /\ tty.size = [col |-> 1, row |-> 1]
    /\ InitInputIdle
    /\ InitCanvasIdle
    /\ InitDecoder
    /\ InitSwatchIdle
    /\ InitArithmeticIdle

NextParse == Decode /\ UNCHANGED <<rvars, ivars, cvars>>

SpecParse == InitParse /\ [][NextParse]_vars

(***************************************************************************)
(* input.rs: parse_event used on its own, on the bytes of keys typed       *)
(***************************************************************************)
\* the first bytes tried: the control bytes but ESC, DEL, a letter, and
\* bytes that are not ASCII (continuation bytes, leads of two, three and four
\* byte characters, bytes no character holds)
ControlBytes == (0..31 \ {27}) \cup {127}

Utf8Leads == {128, 191, 192, 195, 224, 226, 237, 240, 244, 245, 255}

\* the bytes that may follow
Utf8Tails == {65, 128, 130, 169, 191}

\* the number of bytes that follow the first
MaxTail == 4

TailSeqs == UNION {[1..n -> Utf8Tails] : n \in 0..MaxTail}

InitTyped ==
    \E lead \in ControlBytes \cup {65} \cup Utf8Leads, rest \in TailSeqs,
       eof \in BOOLEAN, checks \in BOOLEAN :
        decoder = [src |-> [t |-> "Typed", lead |-> lead], bs |-> <<lead>> \o rest,
                   rest |-> rest, eof |-> eof, checks |-> checks, res |-> None]

InitKeys ==
    /\ InitRenderer
    /\ tty.size = [col |-> 1, row |-> 1]
    /\ InitInputIdle
    /\ InitCanvasIdle
    /\ InitTyped
    /\ InitSwatchIdle
    /\ InitArithmeticIdle

SpecKeys == InitKeys /\ [][NextParse]_vars

(***************************************************************************)
(* math.rs: the operators of Vec2 used on their own                        *)
(***************************************************************************)
\* the components tried
MaxComponent == 2

Components == (0 - MaxComponent)..MaxComponent

\* impl Add for Vec2
Vec2_add(a, b) == Vec2_new(a.x + b.x, a.y + b.y)

\* impl Sub for Vec2
Vec2_sub(a, b) == Vec2_new(a.x - b.x, a.y - b.y)

\* impl AddAssign for Vec2: the value of self afterwards
Vec2_add_assign(a, b) == Vec2_add(a, b)

\* impl SubAssign for Vec2: the value of self afterwards
Vec2_sub_assign(a, b) == Vec2_add(a, b)

InitVecs ==
    \E ax \in Components, ay \in Components, bx \in Components, by \in Components :
        vecs = [a |-> Vec2_new(ax, ay), b |-> Vec2_new(bx, by), op |-> "none", res |-> None]

\* a + b
Apply_add ==
    /\ vecs.op = "none"
    /\ vecs' = [vecs EXCEPT !.op = "add", !.res = Vec2_add(vecs.a, vecs.b)]
    /\ UNCHANGED <<decoder, swatch, raster>>

\* a - b
Apply_sub ==
    /\ vecs.op = "none"
    /\ vecs' = [vecs EXCEPT !.op = "sub", !.res = Vec2_sub(vecs.a, vecs.b)]
    /\ UNCHANGED <<decoder, swatch, raster>>

\* a += b
Apply_add_assign ==
    /\ vecs.op = "none"
    /\ vecs' = [vecs EXCEPT !.op = "add_assign", !.res = Vec2_add_assign(vecs.a, vecs.b)]
    /\ UNCHANGED <<decoder, swatch, raster>>

\* a -= b
Apply_sub_assign ==
    /\ vecs.op = "none"
    /\ vecs' = [vecs EXCEPT !.op = "sub_assign", !.res = Vec2_sub_assign(vecs.a, vecs.b)]
    /\ UNCHANGED <<decoder, swatch, raster>>

InitVec ==
    /\ InitRenderer
    /\ tty.size = [col |-> 1, row |-> 1]
    /\ InitInputIdle
    /\ InitCanvasIdle
    /\ InitDecoderIdle
    /\ InitSwatchIdle
    /\ InitRasterIdle
    /\ InitVecs

NextVec ==
    \/ (Apply_add /\ UNCHANGED <<rvars, ivars, cvars>>)
    \/ (Apply_sub /\ UNCHANGED <<rvars, ivars, cvars>>)
    \/ (Apply_add_assign /\ UNCHANGED <<rvars, ivars, cvars>>)
    \/ (Apply_sub_assign /\ UNCHANGED <<rvars, ivars, cvars>>)

SpecVec == InitVec /\ [][NextVec]_vars

(***************************************************************************)
(* img.rs: Color::hex used on its own                                      *)
(***************************************************************************)
\* the values of one color channel tried
Channel == {0, 1, 15, 16, 127, 128, 254, 255}

\* 0xRRGGBB
Hex(rr, gg, bb) == rr * 65536 + gg * 256 + bb

InitSwatch ==
    \E rr \in Channel, gg \in Channel, bb \in Channel :
        swatch = [h |-> Hex(rr, gg, bb), color |-> None]

\* Color::hex(h)
Color_from_hex ==
    /\ swatch.color = None
    /\ swatch' = [swatch EXCEPT !.color = Color_hex(swatch.h)]
    /\ UNCHANGED <<decoder, raster, vecs>>

InitColor ==
    /\ InitRenderer
    /\ tty.size = [col |-> 1, row |-> 1]
    /\ InitInputIdle
    /\ InitCanvasIdle
    /\ InitDecoderIdle
    /\ InitSwatch
    /\ InitArithmeticIdle

NextColor == Color_from_hex /\ UNCHANGED <<rvars, ivars, cvars>>

SpecColor == InitColor /\ [][NextColor]_vars

(***************************************************************************)
(* Properties of the renderer                                              *)
(***************************************************************************)
DrawCalls == {"clear_screen", "draw_line", "draw_rect", "draw_rect_boundary",
              "draw_ellipse_boundary", "draw_point"}

RECURSIVE Count(_, _)
Count(s, op) ==
    IF s = <<>> THEN 0
    ELSE (IF Head(s).op = op THEN 1 ELSE 0) + Count(Tail(s), op)

RECURSIVE Replay(_, _)
Replay(screen, ds) ==
    IF ds = <<>> THEN screen ELSE Replay(ApplyDraw(screen, Head(ds)), Tail(ds))

\* every character cell of the canvas shows its two pixels on the terminal
DisplayMatches ==
    \A x \in 0..(srv.screen.size.x - 1), r \in 0..(Div(srv.screen.size.y, 2) - 1) :
        /\ <<x, r>> \in DOMAIN tty.cells
        /\ tty.cells[<<x, r>>] = <<Index(srv.screen, Vec2_new(x, 2 * r)),
                                   Index(srv.screen, Vec2_new(x, 2 * r + 1))>>

\* the terminal has not been resized since the begin_draw that observed the
\* canvas's current size
SizeCurrent ==
    /\ RENDERER # None
    /\ obs.sizeEpoch = obs.resizes
    /\ srv.screen.size = RENDERER.prev_screen_size

TerminalRestored ==
    /\ tty.c_lflag = obs.c_lflag
    /\ tty.c_cc = obs.c_cc

\* C1: a draw operation called while no frame is being built panics and
\* sends no directive; begin_draw called while a frame is being built panics;
\* end_draw called while no frame is being built panics.
C1_FrameBracket ==
    [][(call'.n # call.n /\ call'.op \in (DrawCalls \cup {"begin_draw", "end_draw"}))
         => /\ (call'.op \in DrawCalls /\ ~RENDERER.building_frame)
                  => (pc' = "panicked" /\ sent' = sent /\ queue' = queue)
            /\ (call'.op = "begin_draw" /\ RENDERER.building_frame) => pc' = "panicked"
            /\ (call'.op = "end_draw" /\ ~RENDERER.building_frame) => pc' = "panicked"]_vars

C1_Witness ==
    /\ pc = "panicked" /\ call.op \in DrawCalls /\ ~call.bf
    /\ sent # <<>>

\* C2: when begin_draw has returned, the rendering thread has received that
\* call's BeginFrame and reached the barrier; no draw or clear directive of a
\* frame is sent before the rendering thread has received the frame's BeginFrame.
C2_Rendezvous ==
    /\ (RENDERER # None /\ pc = "run" /\ RENDERER.building_frame)
          => (Count(recvd, "BeginFrame") = Count(sent, "BeginFrame") /\ srv.pc # "init")
    /\ \A k \in 1..Len(sent) :
          sent[k].op \in DrawOps
             => Count(SubSeq(sent, 1, k), "BeginFrame") <= Count(recvd, "BeginFrame")

C2_Witness ==
    /\ obs.frames = 2 /\ pc = "run" /\ RENDERER # None /\ RENDERER.building_frame
    /\ queue # <<>> /\ queue[Len(queue)].op \in DrawOps

\* C3: the rendering thread receives and applies the directives in the order
\* they were sent: what was sent is what was received followed by what is
\* still in the channel, and the canvas is the result of applying the
\* received directives in that order.
C3_FifoOrder ==
    /\ sent = recvd \o queue
    /\ srv.screen = Replay(Image_new(0, 0), recvd)

C3_Witness ==
    /\ Len(recvd) >= 4 /\ Len(queue) >= 2
    /\ \E k \in 1..Len(recvd) : recvd[k].op \in DrawOps
    /\ queue[1] # queue[2]

\* C4 as stated: after every completed flush the terminal shows the canvas.
C4_Original ==
    [][obs'.flushes # obs.flushes => DisplayMatches']_vars

\* C4 amended: after every completed flush, provided the terminal has not been
\* resized since the begin_draw that observed the canvas's current size, the
\* terminal shows the canvas.
C4_DisplayEqualsCanvas ==
    [][(obs'.flushes # obs.flushes /\ SizeCurrent') => DisplayMatches']_vars

C4_Witness ==
    /\ obs.flushes = 2 /\ srv.pc = "recv" /\ SizeCurrent /\ DisplayMatches
    /\ obs.skip > 0 /\ obs.cup > 0 /\ obs.glyph > 0
    /\ srv.screen.size = Vec2_new(2, 4)

\* C5: when a frame is pushed whose canvas equals, in size and content, the
\* canvas of the previous flush, the flush prints no color escape and no glyph.
C5_FlushIdempotent ==
    (srv.pc = "flush_end" /\ obs.flushes >= 1 /\ srv.screen = obs.flushed)
       => (obs.esc = 0 /\ obs.glyph = 0)

C5_Witness ==
    /\ srv.pc = "flush_end" /\ obs.flushes >= 1 /\ srv.screen = obs.flushed
    /\ obs.skip = 4

\* C8: after Renderer::exit() the terminal's local-mode flags and control
\* characters are those it had before the Renderer was constructed.
C8_ExitRestoresTermios ==
    (call.op = "exit" /\ ~alive) => TerminalRestored

\* C9: when a usage-contract violation has terminated the caller, the terminal
\* is no longer in raw mode and no longer on the alternate screen.
C9_PanicRestoresTerminal ==
    pc = "panicked" => (TerminalRestored /\ ~tty.alt)

\* C10: when Renderer::exit() has ended the process, every frame pushed by an
\* earlier end_draw has been flushed completely.
C10_ExitAfterFlush ==
    (call.op = "exit" /\ ~alive) => obs.flushes = Count(sent, "PushFrame")

\* C11: end_draw returns as soon as it has put PushFrame in the channel: the
\* call completes in the caller's own step, leaving the caller free to run,
\* without any step of the rendering thread, any write to the terminal or any
\* arrival at the barrier.
C11_EndDrawFireAndForget ==
    [][(call'.n # call.n /\ call'.op = "end_draw" /\ RENDERER.building_frame)
         => /\ call'.outcome = "ok" /\ pc' = "run"
            /\ queue' = Append(queue, PushFrame)
            /\ srv' = srv /\ tty' = tty /\ frame_barrier' = frame_barrier
            /\ obs'.flushes = obs.flushes]_vars

\* end_draw has returned while its PushFrame still waits in the channel and
\* the rendering thread has not begun the flush
C11_Witness ==
    /\ call.op = "end_draw" /\ call.outcome = "ok" /\ pc = "run"
    /\ Count(sent, "PushFrame") = 1 /\ Count(queue, "PushFrame") = 1
    /\ obs.flushes = 0 /\ srv.pc = "recv"

\* the rendering thread is inside a frame: it has received a BeginFrame whose
\* PushFrame it has not received yet
InFrame == Count(recvd, "BeginFrame") > Count(recvd, "PushFrame")

\* C12: the canvas is never resized between a BeginFrame and its PushFrame;
\* a resize directive is always directly followed by the BeginFrame of its
\* frame, and when the rendering thread receives a frame's BeginFrame the
\* canvas already has the size that frame's begin_draw observed.
C12_ResizeOrdering ==
    [][/\ InFrame => srv'.screen.size = srv.screen.size
       /\ \A k \in 1..Len(sent') :
             sent'[k].op = "UpdateScreenSize"
                => /\ k < Len(sent') /\ sent'[k + 1].op = "BeginFrame"
                   /\ Count(SubSeq(sent', 1, k), "BeginFrame")
                         = Count(SubSeq(sent', 1, k), "PushFrame")
       /\ (Len(recvd') > Len(recvd) /\ recvd'[Len(recvd')].op = "BeginFrame")
             => (RENDERER # None /\ srv.screen.size = RENDERER.prev_screen_size)]_vars

\* the second frame's begin_draw saw a new terminal size; the rendering thread
\* has applied the resize, passed BeginFrame and applied a draw of that frame
C12_Witness ==
    /\ Count(recvd, "UpdateScreenSize") = 2 /\ InFrame
    /\ recvd[Len(recvd)].op \in DrawOps
    /\ srv.screen.size = RENDERER.prev_screen_size

\* the step is one iteration of the flush's inner loop
FlushCellStep == srv.pc = "flush" /\ srv' # srv

\* the character cells of the canvas the flush walks over
FlushCells == srv.screen_size.x * ((srv.screen_size.y + 1) \div 2)

\* C26: a character cell is skipped, with nothing printed for it, if and
\* only if the previous canvas has the size of the current one and both pixels
\* of the cell have their previous colors; a cell that is not skipped gets a
\* glyph; a flush whose canvas differs in size from the previous canvas (the
\* first flush, and the first after a resize) skips no cell.
C26_SkipRule ==
    [][/\ FlushCellStep
             => LET pos1 == Vec2_new(srv.i, srv.j)
                    pos2 == Vec2_new(srv.i, srv.j + 1)
                    same == /\ srv.prev_screen.size = srv.screen.size
                            /\ Index(srv.prev_screen, pos1) = Index(srv.screen, pos1)
                            /\ Index(srv.prev_screen, pos2) = Index(srv.screen, pos2)
                IN IF same
                   THEN /\ tty' = tty /\ obs'.skip = obs.skip + 1
                        /\ obs'.glyph = obs.glyph /\ obs'.esc = obs.esc /\ obs'.cup = obs.cup
                   ELSE obs'.skip = obs.skip /\ obs'.glyph = obs.glyph + 1
       /\ (srv.pc = "flush_end" /\ srv.screen.size # srv.prev_screen.size)
             => (obs.skip = 0 /\ obs.glyph = FlushCells)]_vars

\* a second flush has skipped some cells and printed others
C26_Witness ==
    /\ srv.pc = "flush_end" /\ obs.flushes = 1
    /\ srv.screen.size = srv.prev_screen.size
    /\ obs.skip > 0 /\ obs.glyph > 0 /\ obs.skip + obs.glyph = FlushCells

\* C27: for a cell that is not skipped the flush prints no color escape when
\* both pixel colors are among fore and back, one when exactly one of the two
\* pixel colors is among them, and two when neither is, fore becoming the
\* upper pixel's color and back the lower pixel's.
C27_ColorEscapeCount ==
    [][(FlushCellStep /\ obs'.skip = obs.skip)
         => LET s1 == Index(srv.screen, Vec2_new(srv.i, srv.j))
                s2 == Index(srv.screen, Vec2_new(srv.i, srv.j + 1))
                in1 == s1 \in {srv.fore, srv.back}
                in2 == s2 \in {srv.fore, srv.back}
            IN /\ (in1 /\ in2) => obs'.esc = obs.esc
               /\ (in1 # in2) => obs'.esc = obs.esc + 1
               /\ (~in1 /\ ~in2)
                     => (obs'.esc = obs.esc + 2 /\ srv'.fore = s1 /\ srv'.back = s2)]_vars

\* a flush has printed, in its cells, no escape, one escape and two escapes
C27_Witness ==
    /\ srv.pc = "flush_end" /\ obs.esc = 3 /\ obs.glyph = 4
    /\ srv.fore = RED /\ srv.back = WHITE

\* C28: from the start of the rendering thread on, in every flush of every
\* frame, the thread's fore and back are the foreground and background
\* colors selected on the terminal.
C28_ColorCache ==
    srv.pc \notin {"none", "init"} => (tty.fg = srv.fore /\ tty.bg = srv.back)

\* in the middle of a second flush, with colors selected by an earlier frame
C28_Witness ==
    /\ srv.pc = "flush" /\ obs.flushes = 1 /\ srv.i + srv.j > 0
    /\ srv.fore # BLACK /\ srv.back # BLACK /\ srv.fore # srv.back
    /\ tty.fg = srv.fore /\ tty.bg = srv.back

\* where a reader of the directives s[k..] stands at their end, having
\* started in st: "idle" between frames, "resized" after UpdateScreenSize,
\* "frame" after BeginFrame, "bad" once a directive came out of place
RECURSIVE ShapeAfter(_, _, _)
ShapeAfter(s, k, st) ==
    IF k > Len(s) THEN st
    ELSE LET op == s[k].op
             nxt == CASE st = "idle" /\ op = "UpdateScreenSize" -> "resized"
                      [] st = "idle" /\ op = "BeginFrame" -> "frame"
                      [] st = "resized" /\ op = "BeginFrame" -> "frame"
                      [] st = "frame" /\ op \in DrawOps -> "frame"
                      [] st = "frame" /\ op = "PushFrame" -> "idle"
                      [] OTHER -> "bad"
         IN ShapeAfter(s, k + 1, nxt)

\* C29: the directives the rendering thread has received, and those sent, are
\* a prefix of repetitions of (optional UpdateScreenSize, BeginFrame, any
\* number of draw or clear directives, PushFrame).
C29_StreamShape ==
    /\ ShapeAfter(recvd, 1, "idle") # "bad"
    /\ ShapeAfter(sent, 1, "idle") # "bad"

\* two whole frames received, each with a resize, and a draw in the second
C29_Witness ==
    /\ Count(recvd, "PushFrame") = 2 /\ Count(recvd, "UpdateScreenSize") = 2
    /\ recvd[Len(recvd)].op = "PushFrame" /\ recvd[Len(recvd) - 1].op \in DrawOps
    /\ pc = "run"

\* begin_draw has returned and no later call has been made
BeginDrawReturned == pc = "run" /\ call.op = "begin_draw" /\ call.outcome = "ok"

\* the frame the k-th directive sent belongs to: a resize directive belongs
\* to the frame whose BeginFrame follows it
FrameOf(k) ==
    Count(SubSeq(sent, 1, k), "BeginFrame")
        + (IF sent[k].op = "UpdateScreenSize" THEN 1 ELSE 0)

\* when begin_draw returns, everything sent has been received and applied and
\* every frame ended has been flushed to its end
AppliedAtReturn ==
    BeginDrawReturned
        => /\ recvd = sent /\ queue = <<>>
           /\ srv.pc \in {"recv", "barrier"}
           /\ srv.screen = Replay(Image_new(0, 0), recvd)
           /\ obs.flushes = Count(sent, "PushFrame")

\* no flush runs while the caller is past begin_draw, building a frame
NoFlushWhileBuilding ==
    srv.pc \in {"flush", "flush_end"}
        => ~(pc = "run" /\ RENDERER # None /\ RENDERER.building_frame)

\* C30 as stated: when begin_draw returns everything sent before has been
\* applied, the flush of the previous frame included; the directives pending
\* in the queue all belong to one frame; no flush runs while the caller builds
\* a frame.
C30_Original ==
    /\ AppliedAtReturn
    /\ \A j, k \in (Len(recvd) + 1)..Len(sent) : FrameOf(j) = FrameOf(k)
    /\ NoFlushWhileBuilding

\* C30: when begin_draw returns everything sent before has been applied, the
\* flush of the previous frame included; nothing is pending in the queue
\* behind a BeginFrame, so the queue holds the draw, clear and push directives
\* of at most one frame, followed at most by the resize and BeginFrame of the
\* next one; no flush runs while the caller builds a frame.
C30_BackPressure ==
    /\ AppliedAtReturn
    /\ sent = recvd \o queue
    /\ \A k \in 1..Len(queue) : queue[k].op = "BeginFrame" => k = Len(queue)
    /\ Count(queue, "PushFrame") <= 1
    /\ \A j, k \in (Len(recvd) + 1)..Len(sent) :
          (sent[j].op \in DrawOps \cup {"PushFrame"} /\ sent[k].op \in DrawOps \cup {"PushFrame"})
             => FrameOf(j) = FrameOf(k)
    /\ NoFlushWhileBuilding

\* the second begin_draw has returned; the first frame, with a draw, was
\* flushed before
C30_Witness ==
    /\ BeginDrawReturned /\ Count(sent, "BeginFrame") = 2
    /\ obs.flushes = 1 /\ obs.draws > 0 /\ RENDERER.building_frame

\* the calls of frame_barrier.wait() made by begin_draw so far
ProducerWaits == obs.frames - (IF pc = "bd_barrier" THEN 1 ELSE 0)

\* the calls of frame_barrier.wait() made by the rendering thread so far
WorkerWaits == Count(recvd, "BeginFrame")

\* every round of the barrier is made of one wait of each party
RoundsMatch ==
    /\ frame_barrier.generation_id = Min(ProducerWaits, WorkerWaits)
    /\ frame_barrier.count = Abs(ProducerWaits - WorkerWaits)
    /\ frame_barrier.count <= 1
    /\ pc = "bd_wait" => (ProducerWaits = WorkerWaits + 1 \/ frame_barrier.generation_id # pgen)
    /\ srv.pc = "barrier"
          => (WorkerWaits = ProducerWaits + 1 \/ frame_barrier.generation_id # srv.gen)

\* C31: with the rendering thread scheduled fairly every begin_draw that has
\* sent its directives returns; the rendering thread waits at the barrier
\* once per BeginFrame received and the caller once per begin_draw, and each
\* round of the barrier pairs one wait of each.
C31_NoDeadlock ==
    /\ []RoundsMatch
    /\ (pc \in {"bd_barrier", "bd_wait"}) ~> (pc = "run")

\* the second begin_draw has returned from the second round of the barrier
\* while the rendering thread is still inside its own wait
C31_Witness ==
    /\ frame_barrier.generation_id = 2 /\ BeginDrawReturned
    /\ srv.pc = "barrier" /\ ProducerWaits = 2 /\ WorkerWaits = 2

\* C37: the canvas changes only in the step that receives a draw, clear or
\* resize directive; receiving BeginFrame or PushFrame, waiting at the
\* barrier and flushing leave every cell as it is, so what a frame drew is
\* still there in the later frames.
C37_CanvasPersists ==
    [][/\ srv'.screen # srv.screen
            => /\ Len(recvd') = Len(recvd) + 1
               /\ recvd'[Len(recvd')].op \in DrawOps \cup {"UpdateScreenSize"}
       /\ (Len(recvd') > Len(recvd) /\ recvd'[Len(recvd')].op \in {"BeginFrame", "PushFrame"})
            => srv'.screen = srv.screen
       /\ srv.pc \in {"barrier", "flush", "flush_end"} => srv'.screen = srv.screen]_vars

\* the second frame has begun without a resize and the canvas still holds
\* what the first frame drew and flushed
C37_Witness ==
    /\ obs.flushes = 1 /\ Count(recvd, "UpdateScreenSize") = 1
    /\ recvd[Len(recvd)].op = "BeginFrame" /\ Count(recvd, "BeginFrame") = 2
    /\ srv.pc = "recv" /\ srv.screen = obs.flushed
    /\ \E k \in 1..Len(srv.screen.data) : srv.screen.data[k] # BLACK

(***************************************************************************)
(* Properties of the input listener                                        *)
(***************************************************************************)
RECURSIVE LastPressed(_)
LastPressed(evs) ==
    IF evs = <<>> THEN "Left"
    ELSE LET e == evs[Len(evs)]
         IN IF e.t = "Mouse" /\ e.m = "ButtonPressed" THEN e.button
            ELSE LastPressed(SubSeq(evs, 1, Len(evs) - 1))

RECURSIVE IsSubseq(_, _)
IsSubseq(a, b) ==
    IF a = <<>> THEN TRUE
    ELSE IF b = <<>> THEN FALSE
    ELSE IF Head(a) = Head(b) THEN IsSubseq(Tail(a), Tail(b))
    ELSE IsSubseq(a, Tail(b))

\* a typed sequence is well formed when the decoder, given it alone, decodes
\* all of it to one event
WellFormed(ch) ==
    LET r == parse_event(ch, TRUE, FALSE)
    IN r.st = "ok" /\ r.k = Len(ch) + 1

RECURSIVE ExpectedEvents(_)
ExpectedEvents(chs) ==
    IF chs = <<>> THEN <<>>
    ELSE (IF WellFormed(Head(chs)) THEN <<parse_event(Head(chs), TRUE, FALSE).ev>> ELSE <<>>)
         \o ExpectedEvents(Tail(chs))

\* C6: every ButtonReleased or Hold event published carries the button of the
\* most recently published ButtonPressed event (Left if there is none),
\* whatever button the decoder reported, and keeps its kind and position; a
\* ButtonPressed event is published as decoded.
C6_ButtonMemory ==
    /\ Len(ilog.published) = Len(ilog.decoded)
    /\ \A k \in 1..Len(ilog.published) :
          LET e == ilog.published[k]
              d == ilog.decoded[k]
          IN /\ (e.t = "Mouse" /\ e.m \in {"ButtonReleased", "Hold"})
                   => /\ e.button = LastPressed(SubSeq(ilog.published, 1, k - 1))
                      /\ d.t = "Mouse" /\ e.m = d.m /\ e.pos = d.pos
             /\ (d.t = "Mouse" /\ d.m = "ButtonPressed") => e = d

C6_Witness ==
    /\ Len(ilog.published) = 3
    /\ ilog.published[1] = Mouse("ButtonPressed", "Right", Vec2_new(4, 18))
    /\ ilog.published[2] = Mouse("Hold", "Right", Vec2_new(5, 18))
    /\ ilog.published[3] = Mouse("ButtonReleased", "Right", Vec2_new(6, 18))
    /\ ilog.decoded[3].button = "Left"

\* C7: no input makes the listener stop, and once the input has been read
\* every well-formed sequence that was typed has been decoded and published.
C7_MalformedNeverFatal ==
    /\ lst.pc = "run"
    /\ Len(ilog.published) = Len(ilog.decoded)
    /\ stdin = <<>> => IsSubseq(ExpectedEvents(ilog.typed), ilog.decoded)

\* the step is a return of get_event: the listener and the byte source stand
\* still and the application's log names get_event
GetEventReturns ==
    /\ ilog'.by = "get_event" /\ ilog' # ilog
    /\ ilog'.published = ilog.published /\ ilog'.typed = ilog.typed
    /\ UNCHANGED <<stdin, stdin_eof, lst>>

\* C24: the application receives the published events in the order of their
\* publication, each once: what was published is what was received followed
\* by what is still in the channel.  get_event is always able to return, and
\* returns nothing exactly when the channel holds no event; otherwise it
\* returns the oldest one.
C24_EventDelivery ==
    [][/\ ilog'.published = ilog'.received \o input_chan'
       /\ lst.app = "run" => ENABLED get_event
       /\ GetEventReturns
             => /\ (ilog'.last = None) <=> (input_chan = <<>>)
                /\ input_chan # <<>>
                      => (ilog'.last = Head(input_chan) /\ input_chan' = Tail(input_chan))]_vars

\* two different events were received in order, the second through
\* get_event_blocking, and a later get_event on the empty channel returned
\* nothing
C24_Witness ==
    /\ Len(ilog.received) = 2 /\ ilog.received = ilog.published
    /\ ilog.received[1] # ilog.received[2]
    /\ input_chan = <<>> /\ ilog.by = "get_event" /\ ilog.last = None

\* the step is a turn of the listener's loop: bytes leave the source
ListenStep == Len(stdin') < Len(stdin)

\* neither Key(Esc) nor Unsupported is among the events
NoEscNoUnsupported(events) ==
    \A i \in 1..Len(events) : events[i] # Key("Esc") /\ events[i].t # "Unsupported"

\* the listener publishes neither Key(Esc) nor Unsupported, and a turn whose
\* decode fails publishes nothing
FailuresSilent ==
    /\ NoEscNoUnsupported(ilog'.published) /\ NoEscNoUnsupported(input_chan')
    /\ ListenStep
         => LET r == parse_event(stdin, stdin_eof, lst.checks)
            IN /\ r.st # "ok" => (ilog'.published = ilog.published /\ input_chan' = input_chan)
               /\ r.st = "ok" => Len(ilog'.published) = Len(ilog.published) + 1

\* C36 as stated: the listener publishes neither Key(Esc) nor Unsupported, a
\* decode failure publishes nothing, and a turn that starts with ESC reads at
\* least one byte after it.
C36_Original ==
    [][/\ FailuresSilent
       /\ (ListenStep /\ stdin[1] = ESC) => Len(stdin) - Len(stdin') >= 2]_vars

\* C36: the listener publishes neither Key(Esc) nor Unsupported, a decode
\* failure publishes nothing, and a turn that starts with ESC reads at least
\* one byte after it, or fails without publishing when the source has ended
\* with the ESC as its last byte.
C36_NoEscEvent ==
    [][/\ FailuresSilent
       /\ (ListenStep /\ stdin[1] = ESC)
            => \/ Len(stdin) - Len(stdin') >= 2
               \/ /\ stdin_eof /\ stdin = <<ESC>>
                  /\ ilog'.published = ilog.published]_vars

\* the Esc key and an unrecognized sequence were typed and read, the source
\* has ended, and nothing was published
C36_Witness ==
    /\ ilog.typed = <<<<ESC, 91, 120>>, <<ESC>>>> /\ stdin = <<>> /\ stdin_eof
    /\ ilog.published = <<>> /\ input_chan = <<>> /\ lst.pc = "run"

(***************************************************************************)
(* Properties of the canvas                                                *)
(***************************************************************************)
\* the cells of a canvas of the recorded size
Cells(img) == {Vec2_new(x, y) : x \in 0..(img.size.x - 1), y \in 0..(img.size.y - 1)}

\* the canvas is img with exactly the cells of S set to c
Painted(img, S, c) ==
    /\ canvas.size = img.size
    /\ \A q \in Cells(img) : Index(canvas, q) = IF q \in S THEN c ELSE Index(img, q)

\* C13: a point outside the canvas changes nothing and reads there give
\* black; a point inside the canvas is read back as written and every other
\* cell keeps its color.
C13_CanvasBounds ==
    /\ \A q \in Points \ Cells(canvas) : Index(canvas, q) = BLACK
    /\ cop.op = "point"
          => IF cop.a \in Cells(cop.before)
             THEN /\ Index(canvas, cop.a) = cop.c
                  /\ Painted(cop.before, {cop.a}, cop.c)
             ELSE canvas = cop.before

C13_Witness ==
    /\ cop.op = "point" /\ cop.a = Vec2_new(3, 0) /\ cop.c = RED
    /\ cop.before.size = Vec2_new(3, 2)
    /\ \E q \in Cells(canvas) : Index(canvas, q) = RED

\* C14: after every operation of the canvas (new, resize, point, line, rect,
\* rect outline, ellipse outline, clear) the length of the cell array is the
\* width times the height of the recorded size.
C14_DataLength ==
    Len(canvas.data) = canvas.size.x * canvas.size.y

C14_Witness ==
    /\ cop.op = "resize" /\ cop.before.size = Vec2_new(0, 0)
    /\ canvas.size = Vec2_new(2, 3) /\ Len(canvas.data) = 6

\* C15: after resize(w, h) the canvas has size (w, h) and every cell reads
\* black, whatever the canvas held before.
C15_ResizeClears ==
    cop.op = "resize"
       => /\ canvas.size = cop.a
          /\ \A q \in Cells(canvas) : Index(canvas, q) = BLACK

\* C16: after line(p1, p2, c) the cell at p1 has color c when p1 is on the
\* canvas, and the cell at p2 has color c when p2 is on the canvas, in every
\* direction and with either endpoint off the canvas.
C16_LineEndpoints ==
    cop.op = "line"
       => /\ canvas.size = cop.before.size
          /\ cop.a \in Cells(canvas) => Index(canvas, cop.a) = cop.c
          /\ cop.b \in Cells(canvas) => Index(canvas, cop.b) = cop.c

\* a diagonal line from above and left of the canvas to its far corner
C16_Witness ==
    /\ cop.op = "line" /\ cop.a = Vec2_new(0 - 1, 0 - 1) /\ cop.b = Vec2_new(2, 1)
    /\ cop.before = Image_new(3, 2)
    /\ Index(canvas, Vec2_new(2, 1)) = RED /\ Index(canvas, Vec2_new(0, 0)) = RED

\* x lies in the span of extent s anchored at p: rightward/downward from p
\* for a positive extent, leftward/upward from p for a negative one
InSpan(x, p, s) ==
    IF s >= 0 THEN p <= x /\ x < p + s ELSE p - Abs(s) < x /\ x <= p

Block(p, s) ==
    {q \in Cells(canvas) : InSpan(q.x, p.x, s.x) /\ InSpan(q.y, p.y, s.y)}

\* C17: for a positive size and an anchor with a negative component,
\* rect(p, s, c) sets exactly the cells of the canvas that lie in
\* [p.x, p.x + s.x) x [p.y, p.y + s.y) and changes no other cell.
C17_RectClamping ==
    (cop.op = "rect" /\ cop.b.x > 0 /\ cop.b.y > 0 /\ (cop.a.x < 0 \/ cop.a.y < 0))
       => Painted(cop.before, Block(cop.a, cop.b), cop.c)

\* C18: for a size with a negative component, rect(p, s, c) sets exactly the
\* cells of the canvas that lie leftward/upward of the anchor in the negative
\* directions (p.x - |s.x| < x <= p.x, p.y - |s.y| < y <= p.y) and changes no
\* other cell, for every anchor on or off the canvas.
C18_RectNegativeSize ==
    (cop.op = "rect" /\ (cop.b.x < 0 \/ cop.b.y < 0))
       => Painted(cop.before, Block(cop.a, cop.b), cop.c)

\* the cells on the edge of the block of size s anchored at p
Border(p, s) ==
    {q \in Block(p, s) : q.x = p.x \/ q.x = p.x + s.x - 1 \/ q.y = p.y \/ q.y = p.y + s.y - 1}

\* C19: for a positive size and a rectangle inside the canvas,
\* rect_boudary(p, s, c) sets exactly the border cells of the block that
\* rect(p, s, c) fills, and no cell outside that block.
C19_OutlineOfRect ==
    (/\ cop.op = "rect_boudary" /\ cop.b.x > 0 /\ cop.b.y > 0
     /\ cop.a.x >= 0 /\ cop.a.y >= 0
     /\ cop.a.x + cop.b.x <= canvas.size.x /\ cop.a.y + cop.b.y <= canvas.size.y)
       => /\ Painted(cop.before, Border(cop.a, cop.b), cop.c)
          /\ \A q \in Cells(canvas) :
                Index(canvas, q) # Index(cop.before, q)
                   => Index(Image_rect(cop.before, cop.a, cop.b, cop.c), q) = cop.c

\* C20: every cell that ellipse_boundary(center, size, col) colors lies in
\* the rectangle of that size centered at center: |x - center.x| <= size.x / 2
\* and |y - center.y| <= size.y / 2.
C20_EllipseInscribed ==
    cop.op = "ellipse_boundary"
       => \A q \in Cells(canvas) :
             Index(canvas, q) # Index(cop.before, q)
                => /\ Abs(q.x - cop.a.x) <= Div(cop.b.x, 2)
                   /\ Abs(q.y - cop.a.y) <= Div(cop.b.y, 2)

\* the reflections of q about the center: in x, in y, and in both
Reflections(q, center) ==
    {Vec2_new(2 * center.x - q.x, q.y), Vec2_new(q.x, 2 * center.y - q.y),
     Vec2_new(2 * center.x - q.x, 2 * center.y - q.y)}

\* C21: whenever ellipse_boundary(center, size, c) colors a cell, each of the
\* cell's three reflections about the center that lies on the canvas has
\* color c too.
C21_EllipseSymmetry ==
    cop.op = "ellipse_boundary"
       => \A q \in Cells(canvas) :
             Index(canvas, q) # Index(cop.before, q)
                => \A m \in Reflections(q, cop.a) \cap Cells(canvas) :
                      Index(canvas, m) = cop.c

\* an ellipse around the middle of a blank canvas: cells left and right of
\* the center are colored, the corners are not
C21_Witness ==
    /\ cop.op = "ellipse_boundary" /\ cop.a = Vec2_new(1, 1) /\ cop.b = Vec2_new(2, 2)
    /\ cop.before = Image_new(3, 2)
    /\ Index(canvas, Vec2_new(0, 1)) = RED /\ Index(canvas, Vec2_new(2, 1)) = RED
    /\ Index(canvas, Vec2_new(1, 0)) = RED /\ Index(canvas, Vec2_new(0, 0)) = BLACK

\* the stepping of line run from p1 until the cursor is p2, whether or not it
\* is on the canvas
RECURSIVE line_to_end(_, _, _, _, _, _, _, _, _)
line_to_end(img, p1, p2, c, dx, dy, sx, sy, err) ==
    IF p1.x # p2.x \/ p1.y # p2.y
    THEN LET e2 == 2 * err
             err1 == IF e2 >= dy THEN err + dy ELSE err
             x1 == IF e2 >= dy THEN p1.x + sx ELSE p1.x
             err2 == IF e2 <= dx THEN err1 + dx ELSE err1
             y1 == IF e2 <= dx THEN p1.y + sy ELSE p1.y
             q == Vec2_new(x1, y1)
         IN line_to_end(Image_point(img, q, c), q, p2, c, dx, dy, sx, sy, err2)
    ELSE img

\* line without the early stop
Line_without_stop(img, p1, p2, c) ==
    LET dx == Abs(p2.x - p1.x)
        sx == IF p1.x < p2.x THEN 1 ELSE -1
        dy == -Abs(p2.y - p1.y)
        sy == IF p1.y < p2.y THEN 1 ELSE -1
    IN line_to_end(Image_point(img, p1, c), p1, p2, c, dx, dy, sx, sy, dx + dy)

\* C32: line leaves the Image that the same stepping, run from p1 until it
\* reaches p2 without the early stop, leaves.
C32_EarlyStopInvisible ==
    cop.op = "line" => canvas = Line_without_stop(cop.before, cop.a, cop.b, cop.c)

\* a line that starts off the canvas, crosses it coloring cells, and ends off
\* the canvas beyond the column where the loop stops
C32_Witness ==
    /\ cop.op = "line" /\ canvas # cop.before
    /\ cop.a.x < 0 /\ cop.b.x > canvas.size.x /\ cop.b.y # cop.a.y

(***************************************************************************)
(* Properties of the decoder                                               *)
(***************************************************************************)
\* the bytes of the source that the decoder has not read
Unread == SubSeq(decoder.bs, decoder.res.k, Len(decoder.bs))

\* C22: ESC [ f with f one of A, B, C, D, H, F, Z decodes to Key(Up), Key(Down),
\* Key(Right), Key(Left), Key(Home), Key(End), Key(BackTab) respectively, and
\* the decoder reads exactly those three bytes.
C22_CsiFinals ==
    (decoder.res # None /\ decoder.src.kind = "csi")
       => /\ decoder.res.st = "ok"
          /\ decoder.res.ev =
                Key(CASE decoder.src.f = 65 -> "Up"
                      [] decoder.src.f = 66 -> "Down"
                      [] decoder.src.f = 67 -> "Right"
                      [] decoder.src.f = 68 -> "Left"
                      [] decoder.src.f = 72 -> "Home"
                      [] decoder.src.f = 70 -> "End"
                      [] decoder.src.f = 90 -> "BackTab")
          /\ Unread = decoder.rest

\* ESC [ Z followed by ESC [ B: BackTab is decoded and ESC [ B is left unread
C22_Witness ==
    /\ decoder.res # None /\ decoder.src.kind = "csi" /\ decoder.src.f = 90
    /\ decoder.res.ev = Key("BackTab") /\ decoder.rest = <<ESC, 91, 66>>
    /\ Unread = <<ESC, 91, 66>>

\* C23: ESC [ < cb ; col ; row M decodes to ButtonPressed(button, (col - 1,
\* 2 * row - 2)) with button Left, Middle, Right, WheelUp, WheelDown for cb =
\* 0, 1, 2, 64, 65; the same ending in m decodes to a ButtonReleased at that
\* position; cb = 32 decodes to a Hold and cb = 3 to a ButtonReleased at that
\* position.
C23_SgrMouse ==
    (decoder.res # None /\ decoder.src.kind = "sgr")
       => LET src == decoder.src
              ev == decoder.res.ev
              pos == Vec2_new(src.cx - 1, 2 * src.cy - 2)
          IN /\ decoder.res.st = "ok"
             /\ Unread = decoder.rest
             /\ ev.t = "Mouse" /\ ev.pos = pos
             /\ (src.cb \in {0, 1, 2, 64, 65} /\ src.f = 77)
                   => /\ ev.m = "ButtonPressed"
                      /\ ev.button = CASE src.cb = 0 -> "Left"
                                        [] src.cb = 1 -> "Middle"
                                        [] src.cb = 2 -> "Right"
                                        [] src.cb = 64 -> "WheelUp"
                                        [] src.cb = 65 -> "WheelDown"
             /\ (src.cb \in {0, 1, 2, 64, 65} /\ src.f = 109) => ev.m = "ButtonReleased"
             /\ src.cb = 32 => ev.m = "Hold"
             /\ src.cb = 3 => ev.m = "ButtonReleased"

\* ESC [ < 0 ; 5 ; 10 M has been decoded to ButtonPressed(Left, (4, 18))
C23_Witness ==
    /\ decoder.bs = <<ESC, 91, 60, 48, 59, 53, 59, 49, 48, 77>>
    /\ decoder.res # None
    /\ decoder.res.ev = Mouse("ButtonPressed", "Left", Vec2_new(4, 18))

\* the first m bytes of the source are well-formed UTF-8
ValidPrefix(m) == m <= Len(decoder.bs) /\ from_utf8_ok(SubSeq(decoder.bs, 1, m))

\* C34: on a first byte that is not ASCII the decoder returns the character
\* as soon as the bytes read form valid UTF-8, having read that character's
\* bytes and no more; it fails when four bytes are read and no prefix of them
\* is valid, or when the source ends first; it waits only for a source that
\* has not ended; it never reads more than three bytes after the first.
C34_Utf8Assembly ==
    (decoder.res # None /\ decoder.bs[1] >= 128)
        => LET r == decoder.res
               n == r.k - 1
               none == \A m \in 2..4 : ~ValidPrefix(m)
           IN /\ r.st \in {"ok", "err", "more"}
              /\ r.st = "ok"
                   => /\ n \in 2..4 /\ ValidPrefix(n) /\ Utf8Len(decoder.bs) = n
                      /\ \A m \in 2..(n - 1) : ~ValidPrefix(m)
                      /\ r.ev = KeyV("Char", FirstChar(decoder.bs))
              /\ r.st = "err"
                   => /\ none
                      /\ \/ n = 4
                         \/ decoder.eof /\ Len(decoder.bs) < 4 /\ n = Len(decoder.bs)
              /\ r.st = "more" => (none /\ ~decoder.eof /\ Len(decoder.bs) < 4)

\* a four-byte character decoded, the byte after it left unread
C34_Witness ==
    /\ decoder.res # None /\ decoder.res.st = "ok" /\ decoder.res.k = 5
    /\ decoder.bs[1] = 240 /\ Len(decoder.bs) = 5

\* the event of a control byte b
ControlKey(b) ==
    CASE b = 127 -> Key("Backspace")
      [] b = 0 -> Key("Null")
      [] b = 9 -> KeyV("Char", 9)
      [] b \in {10, 13} -> KeyV("Char", 10)
      [] b \in (1..26) \ {9, 10, 13} -> KeyV("Ctrl", 97 + (b - 1))
      [] b \in 28..31 -> KeyV("Ctrl", 52 + (b - 28))

\* C35: 0x7F decodes to Backspace, 0x00 to Null, 0x09 to Char('\t'), 0x0A and
\* 0x0D to Char('\n'), every other byte of 0x01..0x1A to Ctrl of the letter
\* 'a' + (b - 1), a byte of 0x1C..0x1F to Ctrl of the digit '4' + (b - 0x1C),
\* and no byte after the first is read.
C35_ControlBytes ==
    (decoder.res # None /\ decoder.bs[1] \in ControlBytes)
        => decoder.res = R_ok(ControlKey(decoder.bs[1]), 2)

\* 0x03 decoded to Ctrl('c') with bytes after it left unread
C35_Witness ==
    /\ decoder.res # None /\ decoder.bs[1] = 3 /\ Len(decoder.bs) > 1
    /\ decoder.res = R_ok(KeyV("Ctrl", 99), 2)

(***************************************************************************)
(* Properties of Color                                                     *)
(***************************************************************************)
\* C25: for every 24-bit value 0xRRGGBB, Color::hex(0xRRGGBB) has r = RR,
\* g = GG and b = BB.
C25_HexRoundTrip ==
    swatch.color # None
       => \E rr \in 0..255, gg \in 0..255 :
             LET bb == swatch.h - Hex(rr, gg, 0)
             IN /\ bb \in 0..255
                /\ swatch.color = [r |-> rr, g |-> gg, b |-> bb]

\* 0x7F80FF has been converted
C25_Witness ==
    /\ swatch.h = Hex(127, 128, 255)
    /\ swatch.color = [r |-> 127, g |-> 128, b |-> 255]

(***************************************************************************)
(* Properties of the canvas operations' arithmetic                         *)
(***************************************************************************)
\* C33: line, rect, rect_boudary and ellipse_boundary finish without error
\* for every anchor and every size; here, of ellipse_boundary: whatever the
\* size, the call does not panic.
C33_RasterTerminates == raster.at # "panicked"

(***************************************************************************)
(* Properties of Vec2                                                      *)
(***************************************************************************)
\* C38: after a -= b, a is the component-wise difference the operator -
\* gives, (a.x - b.x, a.y - b.y).
C38_SubAssign ==
    vecs.op = "sub_assign"
        => /\ vecs.res = Vec2_sub(vecs.a, vecs.b)
           /\ vecs.res = [x |-> vecs.a.x - vecs.b.x, y |-> vecs.a.y - vecs.b.y]

====
